---- MODULE Spec2Model ----
(***************************************************************************)
(* Model of the email content generation and caching engine                *)
(* (class ProspectEmailGenerator, the second definition of that name in    *)
(* src/utils/prospect_email_generator.py, which is the one Python keeps)   *)
(* together with the cache route of src/api/email_routes.py.               *)
(*                                                                         *)
(* Strings are sequences of tokens.  A token is a string: a single         *)
(* character where the code looks inside a string (substring tests of the  *)
(* challenge inference, the "_" of the cache identity), a whole chunk      *)
(* where the code only copies or replaces it (names, template literals,    *)
(* placeholder markers).  Accented letters of the source's French tags are *)
(* written without the accent.                                             *)
(***************************************************************************)
EXTENDS Integers, Sequences, FiniteSets, TLC

(***************************************************************************)
(* Generic helpers on token sequences                                      *)
(***************************************************************************)
InSeq(x, s) == \E i \in 1..Len(s) : s[i] = x

\* Python's  k in s  for strings: k occurs in s as a contiguous run.
Contains(s, k) ==
  \E i \in 1..(Len(s) - Len(k) + 1) : SubSeq(s, i, i + Len(k) - 1) = k

LowerChar(c) ==
  CASE c = "A" -> "a" [] c = "B" -> "b" [] c = "C" -> "c" [] c = "D" -> "d"
    [] c = "E" -> "e" [] c = "F" -> "f" [] c = "G" -> "g" [] c = "H" -> "h"
    [] c = "I" -> "i" [] c = "J" -> "j" [] c = "K" -> "k" [] c = "L" -> "l"
    [] c = "M" -> "m" [] c = "N" -> "n" [] c = "O" -> "o" [] c = "P" -> "p"
    [] c = "Q" -> "q" [] c = "R" -> "r" [] c = "S" -> "s" [] c = "T" -> "t"
    [] c = "U" -> "u" [] c = "V" -> "v" [] c = "W" -> "w" [] c = "X" -> "x"
    [] c = "Y" -> "y" [] c = "Z" -> "z" [] OTHER -> c

\* str.lower()
Lower(s) == [i \in 1..Len(s) |-> LowerChar(s[i])]

RECURSIVE Flatten(_)
Flatten(ss) == IF ss = << >> THEN << >> ELSE Head(ss) \o Flatten(Tail(ss))

\* str.replace(marker, value) on a token sequence: every token equal to the
\* marker is replaced by the tokens of the value.
Replace(text, marker, value) ==
  Flatten([i \in 1..Len(text) |-> IF text[i] = marker THEN value ELSE <<text[i]>>])

(***************************************************************************)
(* Sender profile (ProspectEmailGenerator.__init__, environment defaults)  *)
(***************************************************************************)
your_name     == <<"John Doe">>
your_position == <<"AI Solutions Specialist">>
company_name  == <<"AI Email Generator Co.">>
your_contact  == <<"contact@aiemail.com">>

default_template ==
  << "\nDear ", "[FirstName]",
     ",\n\nI hope this email finds you well. My name is ", "[YourName]", ", ",
     "[YourPosition]", " at ", "[YourCompany]", ", and I noticed that ",
     "[Company]", " has been making significant strides in the ", "[Industry]",
     " sector.\n\n", "[CustomParagraph]",
     "\n\nI'd love to schedule a brief call to discuss how our AI solutions could specifically help ",
     "[Company]", " with ", "[Challenge]",
     ". Would you be available for a 15-minute conversation next week?\n\nBest regards,\n",
     "[YourName]", "\n", "[YourPosition]", "\n", "[YourContact]", "\n" >>

(***************************************************************************)
(* Challenge inference (extract_company_challenges)                        *)
(***************************************************************************)
tech_challenge_map ==
  << [keyword |-> <<"l","e","g","a","c","y">>,                 challenge |-> "modernisation des systemes herites"],
     [keyword |-> <<"m","a","i","n","f","r","a","m","e">>,     challenge |-> "modernisation des systemes herites"],
     [keyword |-> <<"c","o","b","o","l">>,                     challenge |-> "modernisation des systemes herites"],
     [keyword |-> <<"o","n","-","p","r","e","m","i","s","e">>, challenge |-> "migration vers le cloud"],
     [keyword |-> <<"o","n"," ","p","r","e","m","i","s","e">>, challenge |-> "migration vers le cloud"],
     [keyword |-> <<"e","x","c","e","l">>,                     challenge |-> "automatisation des processus"],
     [keyword |-> <<"m","a","n","u","a","l">>,                 challenge |-> "automatisation des processus"],
     [keyword |-> <<"d","a","t","a">>,                         challenge |-> "analyse de donnees"],
     [keyword |-> <<"a","n","a","l","y","t","i","c","s">>,     challenge |-> "analyse de donnees"],
     [keyword |-> <<"a","i">>,                                 challenge |-> "intelligence artificielle"],
     [keyword |-> <<"m","l">>,                                 challenge |-> "machine learning"],
     [keyword |-> <<"s","e","c","u","r","i","t","y">>,         challenge |-> "cybersecurite"],
     [keyword |-> <<"s","e","c","u","r","e">>,                 challenge |-> "cybersecurite"],
     [keyword |-> <<"c","o","m","p","l","i","a","n","c","e">>, challenge |-> "conformite reglementaire"],
     [keyword |-> <<"r","e","g","u","l","a","t","i","o","n">>, challenge |-> "conformite reglementaire"],
     [keyword |-> <<"c","u","s","t","o","m","e","r">>,         challenge |-> "experience client"],
     [keyword |-> <<"c","r","m">>,                             challenge |-> "gestion de la relation client"],
     [keyword |-> <<"c","o","s","t">>,                         challenge |-> "reduction des couts"],
     [keyword |-> <<"a","u","t","o","m","a","t","i","o","n">>, challenge |-> "automatisation des processus"] >>

\* Python's None where a string is expected, apart from every string of
\* characters; calling .lower() on it raises AttributeError.
None == <<"None">>

\* The accumulator of a scan that an AttributeError has ended.
AttributeError == <<"AttributeError">>

\* Mutant of Match: a challenge already collected is appended again.
MatchAll(s, item, challenges) ==
  IF Contains(Lower(s), Lower(item.keyword))
  THEN Append(challenges, item.challenge)
  ELSE challenges

\* if keyword.lower() in tech.lower() and challenge not in challenges:
\*     challenges.append(challenge)
Match(s, item, challenges) ==
  IF Contains(Lower(s), Lower(item.keyword)) /\ ~InSeq(item.challenge, challenges)
  THEN Append(challenges, item.challenge)
  ELSE challenges

\* The inner loop over tech_challenge_map.items() for one string s.
RECURSIVE ScanMap(_, _, _)
ScanMap(s, k, challenges) ==
  IF k > Len(tech_challenge_map) THEN challenges
  ELSE ScanMap(s, k + 1, Match(s, tech_challenge_map[k], challenges))

\* The outer loop over a list of strings (technologies, then keywords).
RECURSIVE ScanList(_, _)
ScanList(list, challenges) ==
  IF challenges = AttributeError \/ list = << >> THEN challenges
  ELSE IF Head(list) = None THEN AttributeError        \* tech.lower(), keyword.lower()
  ELSE ScanList(Tail(list), ScanMap(Head(list), 1, challenges))

Get(contact_info, key, default) ==
  IF key \in contact_info.has THEN contact_info[key] ELSE default

PositionChallenge(position) ==
  LET in(w) == Contains(position, w)
  IN  IF in(<<"c","t","o">>) \/ in(<<"t","e","c","h","n","o","l","o","g","y">>) \/ in(<<"t","e","c","h">>)
        THEN "innovation technologique"
      ELSE IF in(<<"c","i","o">>) \/ in(<<"i","n","f","o","r","m","a","t","i","o","n">>)
        THEN "transformation digitale"
      ELSE IF in(<<"c","e","o">>) \/ in(<<"f","o","u","n","d","e","r">>) \/ in(<<"p","r","e","s","i","d","e","n","t">>)
        THEN "croissance de l'entreprise"
      ELSE IF in(<<"c","f","o">>) \/ in(<<"f","i","n","a","n","c","e">>)
        THEN "optimisation des couts"
      ELSE IF in(<<"m","a","r","k","e","t","i","n","g">>)
        THEN "generation de leads"
      ELSE IF in(<<"s","a","l","e","s">>) \/ in(<<"r","e","v","e","n","u","e">>)
        THEN "augmentation des ventes"
      ELSE IF in(<<"h","r">>) \/ in(<<"p","e","o","p","l","e">>) \/ in(<<"t","a","l","e","n","t">>)
        THEN "gestion des talents"
      ELSE IF in(<<"p","r","o","d","u","c","t">>)
        THEN "innovation produit"
      ELSE IF in(<<"o","p","e","r","a","t","i","o","n","s">>) \/ in(<<"c","o","o">>)
        THEN "efficacite operationnelle"
      ELSE "transformation digitale"

\* Mutant of OrGeneric: no generic challenge is added.
NoGeneric(challenges, contact_info) == challenges

\* if not challenges: the generic challenge of the position.  The industry
\* and the position are lowered first (lines 864-865).
OrGeneric(challenges, contact_info) ==
  IF challenges = AttributeError THEN AttributeError
  ELSE IF challenges # << >> THEN challenges
  ELSE IF Get(contact_info, "industry", << >>) = None
            \/ Get(contact_info, "position", << >>) = None
  THEN AttributeError
  ELSE <<PositionChallenge(Lower(Get(contact_info, "position", << >>)))>>

\* A list-valued key that is absent or empty gives nothing to scan.
extract_company_challenges(contact_info) ==
  IF "challenges" \in contact_info.has /\ contact_info.challenges # << >>
  THEN contact_info.challenges
  ELSE OrGeneric(ScanList(Get(contact_info, "keywords", << >>),
                          ScanList(Get(contact_info, "technologies", << >>), << >>)),
                 contact_info)

(***************************************************************************)
(* Template generation (generate_email_content_with_template)              *)
(***************************************************************************)
challenge_map(selected_challenge) ==
  CASE selected_challenge = "transformation digitale"            -> "digital transformation"
    [] selected_challenge = "modernisation des systemes herites" -> "legacy system modernization"
    [] selected_challenge = "migration vers le cloud"            -> "cloud migration"
    [] selected_challenge = "automatisation des processus"       -> "process automation"
    [] selected_challenge = "analyse de donnees"                 -> "data analytics"
    [] selected_challenge = "intelligence artificielle"          -> "artificial intelligence"
    [] selected_challenge = "machine learning"                   -> "machine learning"
    [] selected_challenge = "cybersecurite"                      -> "cybersecurity"
    [] selected_challenge = "conformite reglementaire"           -> "regulatory compliance"
    [] selected_challenge = "experience client"                  -> "customer experience"
    [] selected_challenge = "gestion de la relation client"      -> "customer relationship management"
    [] selected_challenge = "reduction des couts"                -> "cost reduction"
    [] selected_challenge = "croissance de l'entreprise"         -> "business growth"
    [] selected_challenge = "innovation technologique"           -> "technological innovation"
    [] selected_challenge = "optimisation des couts"             -> "cost optimization"
    [] selected_challenge = "generation de leads"                -> "lead generation"
    [] selected_challenge = "augmentation des ventes"            -> "sales growth"
    [] selected_challenge = "gestion des talents"                -> "talent management"
    [] selected_challenge = "innovation produit"                 -> "product innovation"
    [] selected_challenge = "efficacite operationnelle"          -> "operational efficiency"
    [] OTHER                                                     -> "digital transformation"

\* The outcome of a call: a returned email_data, or an exception that
\* reaches the caller.
NoData == << >>
Raised == [raised |-> TRUE, data |-> NoData]
Returned(email_data) == [raised |-> FALSE, data |-> email_data]

\* Mutant of SelectedChallenge: the default is taken whatever was inferred.
SelectDefault(challenges) == "transformation digitale"

\* selected_challenge = challenges[0] if challenges else "transformation digitale"
SelectedChallenge(challenges) ==
  IF challenges # << >> THEN challenges[1] ELSE "transformation digitale"

\* The subject and the body, from the contact and the challenge in English.
Render(contact_info, english_challenge) ==
  LET custom_paragraph ==
        <<"I understand that ">> \o contact_info.company
          \o <<" might be facing challenges related to ", english_challenge,
               ". Our AI solutions have helped similar companies in your industry to address these challenges, resulting in significant efficiency improvements and cost savings.">>
      b1 == Replace(default_template, "[FirstName]", contact_info.first_name)
      b2 == Replace(b1, "[YourName]", your_name)
      b3 == Replace(b2, "[YourCompany]", company_name)
      b4 == Replace(b3, "[Company]", contact_info.company)
      b5 == Replace(b4, "[Industry]", Get(contact_info, "industry", <<"technology">>))
      b6 == Replace(b5, "[CustomParagraph]", custom_paragraph)
      b7 == Replace(b6, "[Challenge]", <<english_challenge>>)
      b8 == Replace(b7, "[YourPosition]", your_position)
      b9 == Replace(b8, "[YourContact]", your_contact)
  IN  Returned([subject |-> <<"AI Solutions for ", english_challenge, " at ">>
                              \o contact_info.company,
                body    |-> b9])

generate_email_content_with_template(contact_info) ==
  IF extract_company_challenges(contact_info) = AttributeError
  THEN Raised          \* the exception of line 902 is not caught
  ELSE IF ~({"company", "first_name"} \subseteq contact_info.has)
  THEN Raised          \* KeyError: contact_info['company'] / ['first_name']
  ELSE Render(contact_info,
              challenge_map(SelectedChallenge(extract_company_challenges(contact_info))))

(***************************************************************************)
(* API configuration (verify_api_configuration)                            *)
(*                                                                         *)
(* A configuration is what __init__ read from the environment: the length  *)
(* of the key (0: absent or empty), the shape of the endpoint and whether  *)
(* a deployment name is set.                                               *)
(***************************************************************************)
MinKeyLen == 10

\* Mutant of verify_api_configuration: only the key is looked at.
VerifyKeyOnly(api) == api.api_key >= MinKeyLen

verify_api_configuration(api) ==
  /\ api.api_key >= MinKeyLen          \* 0 (absent) and short keys are refused
  /\ api.endpoint.present
  /\ api.endpoint.https
  /\ api.endpoint.azure_host
  /\ api.deployment_name

GoodEndpoint == [present |-> TRUE, https |-> TRUE, azure_host |-> TRUE]

ApiValid      == [api_key |-> 32, endpoint |-> GoodEndpoint, deployment_name |-> TRUE]
ApiNoKey      == [api_key |-> 0,  endpoint |-> GoodEndpoint, deployment_name |-> TRUE]
ApiShortKey   == [api_key |-> 9,  endpoint |-> GoodEndpoint, deployment_name |-> TRUE]
ApiNoEndpoint == [ApiValid EXCEPT !.endpoint = [present |-> FALSE, https |-> FALSE, azure_host |-> FALSE]]
ApiHttp       == [ApiValid EXCEPT !.endpoint = [GoodEndpoint EXCEPT !.https = FALSE]]
ApiOtherHost  == [ApiValid EXCEPT !.endpoint = [GoodEndpoint EXCEPT !.azure_host = FALSE]]
ApiNoDeployment == [ApiValid EXCEPT !.deployment_name = FALSE]

ApiConfigs == {ApiValid, ApiShortKey}

\* Every way a configuration fails the verification, and the valid one.
ApiShapes ==
  {ApiValid, ApiNoKey, ApiShortKey, ApiNoEndpoint, ApiHttp, ApiOtherHost, ApiNoDeployment}

(***************************************************************************)
(* The provider's answer and its parsing                                   *)
(* (generate_email_content_with_ai, lines 1089-1153)                       *)
(*                                                                         *)
(* A response is the list of its lines (response_text.split('\n')), each a *)
(* sequence of characters, and what json.loads makes of the substring from *)
(* the first '{' to the last '}': an object, or "invalid".                 *)
(***************************************************************************)
Hi == <<"H","i">>
Yo == <<"Y","o">>

\* {"subject": "Hi", "body": "Yo"}
RespJson ==
  [lines  |-> << <<"{","\"","s","u","b","j","e","c","t","\"",":"," ","\"","H","i","\"",","," ","\"","b","o","d","y","\"",":"," ","\"","Y","o","\"","}">> >>,
   json   |-> "object",
   object |-> [subject |-> Hi, body |-> Yo]]

\* {"subject": "", "body": "Yo"}
RespEmptySubject ==
  [lines  |-> << <<"{","\"","s","u","b","j","e","c","t","\"",":"," ","\"","\"",","," ","\"","b","o","d","y","\"",":"," ","\"","Y","o","\"","}">> >>,
   json   |-> "object",
   object |-> [subject |-> << >>, body |-> Yo]]

\* {"subject": "Hi", "body": "Yo", "cc": "x"}
RespExtraKey ==
  [lines  |-> << <<"{","\"","s","u","b","j","e","c","t","\"",":"," ","\"","H","i","\"",","," ","\"","b","o","d","y","\"",":"," ","\"","Y","o","\"",","," ","\"","c","c","\"",":"," ","\"","x","\"","}">> >>,
   json   |-> "object",
   object |-> [subject |-> Hi, body |-> Yo, cc |-> <<"x">>]]

\* {"subject": "Hi"}
RespNoBody ==
  [lines  |-> << <<"{","\"","s","u","b","j","e","c","t","\"",":"," ","\"","H","i","\"","}">> >>,
   json   |-> "object",
   object |-> [subject |-> Hi]]

\* Subject: Hi\nBody: Yo
RespLabeled ==
  [lines  |-> << <<"S","u","b","j","e","c","t",":"," ","H","i">>,
                 <<"B","o","d","y",":"," ","Y","o">> >>,
   json   |-> "invalid",
   object |-> NoData]

\* Subject: Hi\nBody: Yo\nbye
RespLabeledLong ==
  [lines  |-> << <<"S","u","b","j","e","c","t",":"," ","H","i">>,
                 <<"B","o","d","y",":"," ","Y","o">>,
                 <<"b","y","e">> >>,
   json   |-> "invalid",
   object |-> NoData]

\* Sorry
RespProse ==
  [lines  |-> << <<"S","o","r","r","y">> >>,
   json   |-> "invalid",
   object |-> NoData]

\* {"subject": "Hi",\n"body": "Yo",}      (a trailing comma: not JSON)
RespBadJson ==
  [lines  |-> << <<"{","\"","s","u","b","j","e","c","t","\"",":"," ","\"","H","i","\"",",">>,
                 <<"\"","b","o","d","y","\"",":"," ","\"","Y","o","\"",",","}">> >>,
   json   |-> "invalid",
   object |-> NoData]

Responses ==
  {RespJson, RespEmptySubject, RespExtraKey, RespNoBody, RespLabeled, RespLabeledLong,
   RespProse, RespBadJson}

\* The answers the provider gives in the state machine below.
ProviderResponses == {RespJson, RespEmptySubject, RespNoBody, RespLabeled}

SetMin(S) == CHOOSE x \in S : \A y \in S : x <= y
SetMax(S) == CHOOSE x \in S : \A y \in S : x >= y

\* '\n'.join(lines)
RECURSIVE JoinLines(_)
JoinLines(lines) ==
  IF lines = << >> THEN << >>
  ELSE IF Len(lines) = 1 THEN lines[1]
  ELSE lines[1] \o <<"\n">> \o JoinLines(Tail(lines))

Whitespace == {" ", "\n", "\t", "\r"}

\* str.strip(chars): drop the leading and trailing characters of the set.
Strip(s, chars) ==
  LET keep == {i \in 1..Len(s) : s[i] \notin chars}
  IN  IF keep = {} THEN << >> ELSE SubSeq(s, SetMin(keep), SetMax(keep))

\* s.split(':', 1)[1].strip().strip('"').strip()     (s contains a colon)
AfterColon(s) ==
  LET colon == SetMin({i \in 1..Len(s) : s[i] = ":"})
  IN  Strip(Strip(Strip(SubSeq(s, colon + 1, Len(s)), Whitespace), {"\""}), Whitespace)

\* start_idx >= 0 and end_idx > start_idx: a '{' and, not before it, a '}'.
HasBraces(response_text) ==
  /\ InSeq("{", response_text)
  /\ InSeq("}", response_text)
  /\ SetMin({i \in 1..Len(response_text) : response_text[i] = "{"})
       < SetMax({i \in 1..Len(response_text) : response_text[i] = "}"}) + 1

\* The primary strategy: the JSON object, accepted when both keys are
\* present.  "none" stands for the ValueError / JSONDecodeError.
ParseJson(response) ==
  IF /\ HasBraces(JoinLines(response.lines))
     /\ response.json = "object"
     /\ {"subject", "body"} \subseteq DOMAIN response.object
  THEN [ok |-> TRUE, email_data |-> response.object]
  ELSE [ok |-> FALSE, email_data |-> NoData]

StopKeys ==
  { <<"\"","s","u","b","j","e","c","t","\"",":">>, <<"s","u","b","j","e","c","t",":">>,
    <<"\"","t","o","\"",":">>, <<"t","o",":">> }

\* The while loop of line 1131: the first line after body_start that holds
\* one of the keys, or one past the last line.
BodyEnd(lines, body_start) ==
  LET stops == {j \in (body_start + 1)..Len(lines) :
                  \E key \in StopKeys : Contains(Lower(lines[j]), key)}
  IN  IF stops = {} THEN Len(lines) + 1 ELSE SetMin(stops)

\* The for loop of line 1123, from line i on.
RECURSIVE ScanLines(_, _, _, _)
ScanLines(lines, i, subject, body) ==
  IF i > Len(lines) THEN [subject |-> subject, body |-> body]
  ELSE LET line == lines[i]
       IN  IF Contains(Lower(line), <<"s","u","b","j","e","c","t">>) /\ InSeq(":", line) /\ subject = << >>
           THEN ScanLines(lines, i + 1, AfterColon(line), body)
           ELSE IF Contains(Lower(line), <<"b","o","d","y">>) /\ InSeq(":", line) /\ body = << >>
           THEN ScanLines(lines, i + 1, subject,
                          AfterColon(JoinLines(SubSeq(lines, i, BodyEnd(lines, i) - 1))))
           ELSE ScanLines(lines, i + 1, subject, body)

\* The fallback strategy: accepted when subject and body are both non-empty.
Accept(found) ==
  IF found.subject = << >> \/ found.body = << >>
  THEN [ok |-> FALSE, email_data |-> NoData]
  ELSE [ok |-> TRUE, email_data |-> found]

ParseLines(response) == Accept(ScanLines(response.lines, 1, << >>, << >>))

\* The primary strategy, and the fallback when it gives nothing.
FirstOk(primary, fallback) == IF primary.ok THEN primary ELSE fallback

ParseResponse(response) == FirstOk(ParseJson(response), ParseLines(response))

\* The parse of each response of the model, computed once.
ParsedResponses == [r \in Responses |-> ParseResponse(r)]

(***************************************************************************)
(* Contact records                                                         *)
(*                                                                         *)
(* A contact is a mapping; "has" is the set of its keys, and a key outside *)
(* "has" is absent (its field below is then a filler that is never read).  *)
(***************************************************************************)
NoFields ==
  [has |-> {}, first_name |-> << >>, last_name |-> << >>, email |-> << >>,
   company |-> << >>, position |-> << >>, industry |-> << >>,
   technologies |-> << >>, keywords |-> << >>, challenges |-> << >>]

\* The contact of the outreach scenario.
Alice ==
  [NoFields EXCEPT
     !.has = {"first_name", "last_name", "email", "company", "position", "technologies"},
     !.first_name = <<"Alice">>, !.last_name = <<"Martin">>,
     !.email = <<"alice@acme.test">>, !.company = <<"Acme">>,
     !.position = <<"C","T","O">>,
     !.technologies = << <<"l","e","g","a","c","y"," ","m","a","i","n","f","r","a","m","e">> >>]

Bob ==
  [NoFields EXCEPT
     !.has = {"first_name", "last_name", "email", "company", "position", "industry",
              "technologies", "keywords", "challenges"},
     !.first_name = <<"Bob">>, !.last_name = <<"Xu">>,
     !.email = <<"bob@x.test">>, !.company = <<"Xco">>,
     !.position = <<"s","a","l","e","s">>]

\* Records that lack one key each; the first two keep the (email, company)
\* pair of Alice.
AliceNoFirstName == [Alice EXCEPT !.has = Alice.has \ {"first_name"}]
AliceNoLastName == [Alice EXCEPT !.has = Alice.has \ {"last_name"}]
NoEmail == [Alice EXCEPT !.has = Alice.has \ {"email"}]
NoCompany == [Alice EXCEPT !.has = Alice.has \ {"company"}]

\* Two rows whose fields are written character by character: the email
\* a_b at the company c, and the email a at the company b_c.
EmailUnderscore ==
  [Alice EXCEPT !.email = <<"a","_","b">>, !.company = <<"c">>]
CompanyUnderscore ==
  [Alice EXCEPT !.email = <<"a">>, !.company = <<"b","_","c">>]

Contacts ==
  {Alice, AliceNoFirstName, AliceNoLastName, NoEmail, NoCompany, Bob,
   EmailUnderscore, CompanyUnderscore}

\* The contacts the generation calls of the state machine are given.
Prospects == {Alice, AliceNoFirstName, AliceNoLastName, NoEmail}

\* read_contacts refuses a CSV without the four required columns and gives
\* every row the three list fields.
CsvContacts ==
  {c \in Prospects : {"first_name", "last_name", "email", "company"} \subseteq c.has}

\* contact_id = f"{email}_{company}"
ContactId(email, company) == email \o <<"_">> \o company

HasIdentity(contact_info) == {"email", "company"} \subseteq contact_info.has

IdOf(contact_info) == ContactId(contact_info.email, contact_info.company)

\* The template's result for each contact of the model, computed once.
TemplateResults == [c \in Contacts |-> generate_email_content_with_template(c)]

(***************************************************************************)
(* Files and cache maps                                                    *)
(***************************************************************************)
EmptyMap == << >>

Upsert(m, k, v) == [x \in (DOMAIN m) \cup {k} |-> IF x = k THEN v ELSE m[x]]

\* A file is absent, holds a JSON object, or holds something json.load refuses.
AbsentFile == [kind |-> "absent", data |-> EmptyMap]
JsonFile(m) == [kind |-> "json", data |-> m]

\* A file just opened for writing: empty, which json.load refuses.
TruncatedFile == [kind |-> "corrupt", data |-> EmptyMap]

\* Mutant of load_cache: what json.load raises is not caught, and no store
\* comes back.
LoadUnguarded(file) ==
  CASE file.kind = "json"    -> file.data
    [] file.kind = "absent"  -> EmptyMap
    [] file.kind = "corrupt" -> <<"JSONDecodeError">>

\* load_cache: the file's object, or {} when it is absent or unreadable.
load_cache(file) == IF file.kind = "json" THEN file.data ELSE EmptyMap

LocalEntry(email_data, timestamp) ==
  [email_data |-> email_data, timestamp |-> timestamp]

SharedEntry(email, company, email_data, timestamp) ==
  [email |-> email, company |-> company, timestamp |-> timestamp, email_data |-> email_data]

Instances == {1, 2}

\* email_routes.email_generator, the instance the cache route works on.
RouteInstance == 1

MaxClock == 1

MaxBatch == 1

(***************************************************************************)
(* The provider, as one generation call meets it                           *)
(*                                                                         *)
(* client:   ChatCompletionsClient(...) could be built (line 1022)         *)
(* sdk:      "from openai import AzureOpenAI" and its constructor succeed  *)
(* error:    the invocation raises (network, API error, no content)        *)
(* response: the text of the answer, when it does not                      *)
(***************************************************************************)
Providers ==
  {[client |-> FALSE, sdk |-> TRUE, error |-> TRUE, response |-> RespProse]}
    \cup {[client |-> TRUE, sdk |-> TRUE, error |-> TRUE, response |-> RespProse]}
    \cup {[client |-> TRUE, sdk |-> TRUE, error |-> FALSE, response |-> r] : r \in ProviderResponses}
    \cup {[client |-> TRUE, sdk |-> FALSE, error |-> FALSE, response |-> RespJson]}

\* Mutant of ProviderCalls: the alternative method invokes the provider again
\* after a failed create().
ProviderCallsRetry(provider) ==
  IF ~provider.client THEN 0
  ELSE IF provider.sdk THEN 1 + (IF provider.error THEN 1 ELSE 0)
  ELSE 0 + 1

\* Invocations of the provider in one call (lines 1039-1087).  With the SDK,
\* create() is the invocation, and when it raises, client is the AzureOpenAI
\* object, whose missing .complete raises before anything is sent.  Without
\* the SDK nothing was sent, and client.complete is the invocation.
ProviderCalls(provider) ==
  IF ~provider.client THEN 0
  ELSE IF provider.sdk THEN 1 + 0
  ELSE 0 + 1

ProviderFails(provider) == ~provider.client \/ provider.error

(***************************************************************************)
(* State                                                                   *)
(***************************************************************************)
VARIABLES
  cache,          \* cache[i]: self.cache of generator instance i
  cache_file,     \* email_cache.json, the backing file of both instances
  friends_cache,  \* friends_shared_cache.json
  friends_data,   \* friends_data.json: "absent", "none" (nobody shares), "sharing"
  api,            \* the API configuration read from the environment
  now,            \* the clock datetime.now() reads
  last,           \* the last call: what was asked, what came back
  returned,       \* returned[i]: identity -> email_data last returned by a
                  \* generation call on instance i since its construction / clear
  live,           \* the generator instances in use
  cleared,        \* identities the last clear removed from the route instance
                  \* and that were not generated again since
  req             \* req[r]: the position and the locals of concurrent request r

vars == <<cache, cache_file, friends_cache, friends_data, api, now, last, returned, live, cleared, req>>

Rosters == {"absent", "none", "sharing"}

\* What one call works on: its instance's memory, the two files, and the
\* instance's history of returned contents.
Store(i) ==
  [cache |-> cache[i], file |-> cache_file, shared |-> friends_cache, ret |-> returned[i]]

(***************************************************************************)
(* Cache Store and Friend Cache Sync                                       *)
(***************************************************************************)
\* save_cache: the whole in-memory cache is written to the backing file.
save_cache(s) == [s EXCEPT !.file = JsonFile(s.cache)]

\* self.cache[contact_id] = {...}; self.save_cache()
StoreLocal(s, contact_id, email_data, t) ==
  save_cache([s EXCEPT !.cache = Upsert(s.cache, contact_id, LocalEntry(email_data, t))])

\* Mutant of sync_with_friends_cache: the roster is not consulted.
SyncWithoutRoster(s, roster, email, company, email_data, t) ==
  IF s.shared.kind = "corrupt" THEN s
  ELSE [s EXCEPT !.shared =
          JsonFile(Upsert(load_cache(s.shared), ContactId(email, company),
                          SharedEntry(email, company, email_data, t)))]

sync_with_friends_cache(s, roster, email, company, email_data, t) ==
  IF roster # "sharing" THEN s                 \* no roster file, or no active friend
  ELSE IF s.shared.kind = "corrupt" THEN s     \* json.load raises; caught, logged
  ELSE [s EXCEPT !.shared =
          JsonFile(Upsert(load_cache(s.shared), ContactId(email, company),
                          SharedEntry(email, company, email_data, t)))]

\* Mutant of save_to_cache: the file is written before the entry is stored.
SaveBeforeStore(s, roster, email, company, email_data, t) ==
  sync_with_friends_cache(
    [save_cache(s) EXCEPT !.cache = Upsert(s.cache, ContactId(email, company),
                                            LocalEntry(email_data, t))],
    roster, email, company, email_data, t)

save_to_cache(s, roster, email, company, email_data, t) ==
  sync_with_friends_cache(StoreLocal(s, ContactId(email, company), email_data, t),
                          roster, email, company, email_data, t)

\* Mutant of verify_contact_in_cache: the shared file is not consulted.
VerifyLocalOnly(s, contact_email, company) ==
  [found |-> ContactId(contact_email, company) \in DOMAIN s.cache, raised |-> FALSE, s |-> s]

\* Mutant of verify_contact_in_cache: the shared file is read outside the
\* try, and what json.load raises reaches the caller.
VerifyUnguarded(s, contact_email, company) ==
  LET contact_id == ContactId(contact_email, company)
  IN  IF contact_id \in DOMAIN s.cache
      THEN [found |-> TRUE, raised |-> FALSE, s |-> s]
      ELSE IF s.shared.kind = "corrupt"
      THEN [found |-> FALSE, raised |-> TRUE, s |-> s]
      ELSE IF s.shared.kind = "json" /\ contact_id \in DOMAIN s.shared.data
      THEN [found |-> TRUE, raised |-> FALSE,
            s |-> save_cache([s EXCEPT !.cache = Upsert(s.cache, contact_id, s.shared.data[contact_id])])]
      ELSE [found |-> FALSE, raised |-> FALSE, s |-> s]

\* Mutant of verify_contact_in_cache: the shared file is consulted first.
VerifySharedFirst(s, contact_email, company) ==
  LET contact_id == ContactId(contact_email, company)
  IN  IF s.shared.kind = "json" /\ contact_id \in DOMAIN s.shared.data
      THEN [found |-> TRUE, raised |-> FALSE,
            s |-> save_cache([s EXCEPT !.cache = Upsert(s.cache, contact_id, s.shared.data[contact_id])])]
      ELSE [found |-> contact_id \in DOMAIN s.cache, raised |-> FALSE, s |-> s]

\* verify_contact_in_cache: the local cache, then the shared file, whose
\* entry is copied into the local cache and saved.  The read of the shared
\* file is inside a try that catches every exception (lines 1238-1254).
verify_contact_in_cache(s, contact_email, company) ==
  LET contact_id == ContactId(contact_email, company)
  IN  IF contact_id \in DOMAIN s.cache
      THEN [found |-> TRUE, raised |-> FALSE, s |-> s]
      ELSE IF s.shared.kind = "json" /\ contact_id \in DOMAIN s.shared.data
      THEN [found |-> TRUE, raised |-> FALSE,
            s |-> save_cache([s EXCEPT !.cache = Upsert(s.cache, contact_id, s.shared.data[contact_id])])]
      ELSE [found |-> FALSE, raised |-> FALSE, s |-> s]

(***************************************************************************)
(* Generation                                                              *)
(***************************************************************************)
NoPrev == [known |-> FALSE, data |-> NoData]

\* What a call did, for the record of the call: r is what it gave back, s0
\* the store it started on.
Item(s0, contact_info, r) ==
  [contact    |-> contact_info,
   outcome    |-> r.outcome,
   calls      |-> r.calls,          \* provider invocations
   generated  |-> r.generated,      \* "none", "template" or "ai"
   ai_failed  |-> r.ai_failed,      \* the AI path was taken and failed
   from_cache |-> r.from_cache,
   first      |-> r.first,          \* the entry as the call first stored it
   hit        |-> HasIdentity(contact_info) /\ IdOf(contact_info) \in DOMAIN s0.cache,
   shared_hit |-> HasIdentity(contact_info) /\ IdOf(contact_info) \in DOMAIN load_cache(s0.shared),
   prev       |-> IF HasIdentity(contact_info) /\ IdOf(contact_info) \in DOMAIN s0.ret
                  THEN [known |-> TRUE, data |-> s0.ret[IdOf(contact_info)]]
                  ELSE NoPrev]

NoFirst == [known |-> FALSE, entry |-> NoData]

Out(s, outcome, calls, generated, ai_failed) ==
  [s |-> s, outcome |-> outcome, calls |-> calls, generated |-> generated,
   ai_failed |-> ai_failed, from_cache |-> FALSE, first |-> NoFirst]

\* A call that ends with what the template gave.
TemplateOut(s, o, calls, ai_failed) ==
  Out(s, o, calls, IF o.raised THEN "none" ELSE "template", ai_failed)

\* Mutant of AiFallback: the failure reaches the caller.
AiFallbackRaises(s, contact_info, calls) == Out(s, Raised, calls, "none", TRUE)

\* The fallbacks of generate_email_content_with_ai (lines 973-976, 1114-1116,
\* 1150-1153 and 1155-1161): the template's result is returned, nothing is
\* stored.
AiFallback(s, contact_info, calls) ==
  TemplateOut(s, TemplateResults[contact_info], calls, TRUE)

\* From the invocation of the provider on (lines 1008-1161).
AiAnswer(s, contact_info, provider, parsed, t) ==
  IF ProviderFails(provider) \/ ~parsed.ok
  THEN AiFallback(s, contact_info, ProviderCalls(provider))
  ELSE [Out(StoreLocal(s, IdOf(contact_info), parsed.email_data, t),
            Returned(parsed.email_data), ProviderCalls(provider), "ai", FALSE)
          EXCEPT !.first = [known |-> TRUE, entry |-> LocalEntry(parsed.email_data, t)]]

generate_email_content_with_ai(s, contact_info, provider, t) ==
  IF ~HasIdentity(contact_info)
  THEN Out(s, Raised, 0, "none", FALSE)                       \* KeyError, line 965
  ELSE IF IdOf(contact_info) \in DOMAIN s.cache
  THEN Out(s, Returned(s.cache[IdOf(contact_info)].email_data), 0, "none", FALSE)
  ELSE IF ~verify_api_configuration(api)
  THEN AiFallback(s, contact_info, 0)
  ELSE IF ~({"first_name", "last_name"} \subseteq contact_info.has)
  THEN Out(s, Raised, 0, "none", FALSE)                       \* KeyError in the prompt, line 989
  ELSE AiAnswer(s, contact_info, provider, ParsedResponses[provider.response], t)

\* generate_email_content_with_template as a call of its own: no cache is
\* read or written.
TemplateCall(s, contact_info) ==
  TemplateOut(s, TemplateResults[contact_info], 0, FALSE)

\* The entry a call that stored none yet is about to store first.
FirstOr(first, email_data, t) ==
  IF first.known THEN first ELSE [known |-> TRUE, entry |-> LocalEntry(email_data, t)]

\* process_contact after the generation (lines 1285-1292): the content is
\* stored and mirrored, at the time t2 the clock then shows.
Finish(g, roster, contact_info, t2) ==
  IF g.outcome.raised THEN g
  ELSE [g EXCEPT !.s = save_to_cache(g.s, roster, contact_info.email,
                                     contact_info.company, g.outcome.data, t2),
                 !.first = FirstOr(g.first, g.outcome.data, t2)]

\* process_contact after the lookup v (lines 1273-1292).
AfterLookup(v, s, roster, contact_info, use_ai, provider, t, t2) ==
  IF v.found
  THEN [Out(v.s, Returned(v.s.cache[IdOf(contact_info)].email_data), 0, "none", FALSE)
          EXCEPT !.from_cache = TRUE]
  ELSE Finish(IF use_ai /\ verify_api_configuration(api)
              THEN generate_email_content_with_ai(s, contact_info, provider, t)
              ELSE [TemplateCall(s, contact_info) EXCEPT !.ai_failed = use_ai],
              roster, contact_info, t2)

\* t is the time at the generation, t2 the time at the store that follows.
process_contact(s, roster, contact_info, use_ai, provider, t, t2) ==
  IF ~HasIdentity(contact_info)
  THEN Out(s, Raised, 0, "none", FALSE)                       \* KeyError, line 1271
  ELSE AfterLookup(verify_contact_in_cache(s, contact_info.email, contact_info.company),
                   s, roster, contact_info, use_ai, provider, t, t2)

\* process_contacts: one row of the CSV.  An exception is caught and logged,
\* the row is left out of the results (lines 1386-1403).
BatchRow(s, contact_info, use_ai, provider, t) ==
  IF use_ai THEN generate_email_content_with_ai(s, contact_info, provider, t)
  ELSE TemplateCall(s, contact_info)

\* The history of returned contents, kept for the two entry points that
\* consult the cache.
Remember(s, contact_info, outcome) ==
  IF HasIdentity(contact_info) /\ ~outcome.raised
  THEN [s EXCEPT !.ret = Upsert(s.ret, IdOf(contact_info), outcome.data)]
  ELSE s

RECURSIVE BatchRun(_, _, _, _, _, _)

\* The rows after the first, r being what the first row gave.
BatchRest(s, contacts, providers, use_ai, t, items, r) ==
  BatchRun(IF use_ai THEN Remember(r.s, Head(contacts), r.outcome) ELSE r.s,
           Tail(contacts), Tail(providers), use_ai, t,
           Append(items, Item(s, Head(contacts), r)))

BatchRun(s, contacts, providers, use_ai, t, items) ==
  IF contacts = << >> THEN [s |-> s, items |-> items]
  ELSE BatchRest(s, contacts, providers, use_ai, t, items,
                 BatchRow(s, Head(contacts), use_ai, Head(providers), t))

(***************************************************************************)
(* Inputs                                                                  *)
(***************************************************************************)
NoProvider == [client |-> FALSE, sdk |-> TRUE, error |-> TRUE, response |-> RespProse]

ProvidersFor(use_ai) == IF use_ai THEN Providers ELSE {NoProvider}

BatchProviders ==
  {NoProvider,
   [client |-> TRUE, sdk |-> TRUE, error |-> FALSE, response |-> RespJson],
   [client |-> TRUE, sdk |-> TRUE, error |-> FALSE, response |-> RespProse]}

SeqsUpTo(S, n) == UNION {[1..k -> S] : k \in 1..n}

\* email_data handed to save_to_cache by a caller.
PutData == {[subject |-> Hi, body |-> Yo]}

NoPut == [email |-> << >>, company |-> << >>, email_data |-> NoData]

(***************************************************************************)
(* Initial state: the route's generator, constructed on an absent file     *)
(***************************************************************************)
\* Requests that run concurrently, each a process_contact in template mode.
Requests == {1, 2}

Idle ==
  [pc |-> "idle", inst |-> 0, contact |-> NoFields, email_data |-> NoData,
   timestamp |-> 0, read |-> EmptyMap, shared_cache |-> EmptyMap, order |-> 0]

NoCall ==
  [op |-> "init", inst |-> 0, use_ai |-> FALSE, sharing |-> FALSE, items |-> << >>,
   put |-> NoPut, repeat |-> FALSE, file_before |-> AbsentFile]

Call(op, i, use_ai, items) ==
  [NoCall EXCEPT !.op = op, !.inst = i, !.use_ai = use_ai,
                 !.sharing = (friends_data = "sharing"), !.items = items]

Init ==
  /\ live = {RouteInstance}
  /\ cache_file = AbsentFile
  /\ cache = [i \in Instances |-> load_cache(cache_file)]
  /\ friends_cache = AbsentFile
  /\ friends_data = "absent"
  /\ api \in ApiConfigs
  /\ now = 0
  /\ last = NoCall
  /\ returned = [i \in Instances |-> EmptyMap]
  /\ cleared = {}
  /\ req = [r \in Requests |-> Idle]

(***************************************************************************)
(* Actions                                                                 *)
(***************************************************************************)
Commit(i, s) ==
  /\ cache' = [cache EXCEPT ![i] = s.cache]
  /\ cache_file' = s.file
  /\ friends_cache' = s.shared
  /\ returned' = [returned EXCEPT ![i] = s.ret]

\* Identities for which the call produced content anew.
Regenerated(items) ==
  {IdOf(items[k].contact) : k \in {j \in 1..Len(items) : items[j].generated # "none"}}

Uncleared(i, ids) ==
  cleared' = IF i = RouteInstance THEN cleared \ ids ELSE cleared

\* ProspectEmailGenerator(cache_file=...): a generator is constructed anew
\* and loads the backing file.
Construct(i) ==
  /\ cache' = [cache EXCEPT ![i] = load_cache(cache_file)]
  /\ returned' = [returned EXCEPT ![i] = EmptyMap]
  /\ cleared' = IF i = RouteInstance THEN {} ELSE cleared
  /\ last' = Call("construct", i, FALSE, << >>)
  /\ UNCHANGED <<cache_file, friends_cache, friends_data, api, now, live, req>>

\* The effects of a call that ended on store s with the record items.
Done(op, i, use_ai, s, items, clock) ==
  /\ Commit(i, s)
  /\ Uncleared(i, Regenerated(items))
  /\ last' = Call(op, i, use_ai, items)
  /\ now' = clock
  /\ UNCHANGED <<friends_data, api, live, req>>

\* A call for one contact that gave r.
Single(op, i, use_ai, contact_info, r, remember, clock) ==
  Done(op, i, use_ai,
       IF remember THEN Remember(r.s, contact_info, r.outcome) ELSE r.s,
       <<Item(Store(i), contact_info, r)>>, clock)

\* t2 is what the clock shows when process_contact stores the content.
ProcessContact(i, contact_info, use_ai, provider, t2) ==
  Single("process_contact", i, use_ai, contact_info,
         process_contact(Store(i), friends_data, contact_info, use_ai, provider, now, t2),
         TRUE, t2)

GenerateWithAI(i, contact_info, provider) ==
  Single("generate_email_content_with_ai", i, TRUE, contact_info,
         generate_email_content_with_ai(Store(i), contact_info, provider, now), TRUE, now)

GenerateWithTemplate(i, contact_info) ==
  Single("generate_email_content_with_template", i, FALSE, contact_info,
         TemplateCall(Store(i), contact_info), FALSE, now)

\* The batch that gave r.
Batch(i, use_ai, r) == Done("process_contacts", i, use_ai, r.s, r.items, now)

\* process_contacts over the rows read from a CSV file.  The files written
\* under the output directory are not part of the modelled state.
ProcessContacts(i, contacts, use_ai, providers) ==
  Batch(i, use_ai, BatchRun(Store(i), contacts, providers, use_ai, now, << >>))

\* save_to_cache called by a user of the class (the cache put).
SaveToCache(i, email, company, email_data) ==
  LET s0 == Store(i)
      put == [email |-> email, company |-> company, email_data |-> email_data]
      again == last.op = "save_to_cache" /\ last.inst = i /\ last.put = put
      \* the caller replaces the identity's content: its history starts anew
      forget == [s0 EXCEPT !.ret = [x \in (DOMAIN s0.ret) \ {ContactId(email, company)} |-> s0.ret[x]]]
  IN  /\ Commit(i, save_to_cache(forget, friends_data, email, company, email_data, now))
      /\ Uncleared(i, {ContactId(email, company)})
      /\ last' = [Call("save_to_cache", i, FALSE, << >>) EXCEPT
                    !.put = put, !.repeat = again,
                    !.file_before = IF again THEN cache_file ELSE AbsentFile]
      /\ UNCHANGED <<friends_data, api, now, live, req>>

\* Mutant of ClearCache: only the file is emptied, the memory is kept.
ClearFileOnly ==
  /\ cache_file' = JsonFile(EmptyMap)
  /\ returned' = [returned EXCEPT ![RouteInstance] = EmptyMap]
  /\ cleared' = cleared \cup DOMAIN cache[RouteInstance]
  /\ last' = Call("clear_cache", RouteInstance, FALSE, << >>)
  /\ UNCHANGED <<cache, friends_cache, friends_data, api, now, live, req>>

\* DELETE /cache (email_routes.clear_cache): the route's instance is emptied
\* and {} is written to its backing file.
ClearCache ==
  /\ cache' = [cache EXCEPT ![RouteInstance] = EmptyMap]
  /\ cache_file' = JsonFile(EmptyMap)
  /\ returned' = [returned EXCEPT ![RouteInstance] = EmptyMap]
  /\ cleared' = cleared \cup DOMAIN cache[RouteInstance]
  /\ last' = Call("clear_cache", RouteInstance, FALSE, << >>)
  /\ UNCHANGED <<friends_cache, friends_data, api, now, live, req>>

\* Time passes.
Tick ==
  /\ now < MaxClock
  /\ now' = now + 1
  /\ UNCHANGED <<cache, cache_file, friends_cache, friends_data, api, last, returned, live, cleared, req>>

\* The roster file is written by the friends feature, outside the engine.
SetRoster(roster) ==
  /\ roster # friends_data
  /\ roster # "absent"
  /\ friends_data' = roster
  /\ UNCHANGED <<cache, cache_file, friends_cache, api, now, last, returned, live, cleared, req>>

\* The times at which process_contact may come to store the content.  In
\* template mode the clock is read at the store only, and a later store is
\* the same as a later call.
StoreTimes(use_ai) == IF use_ai THEN now..MaxClock ELSE {now}

Next ==
  \/ \E i \in live : Construct(i)
  \/ \E i \in live, c \in Prospects, use_ai \in BOOLEAN :
       \E p \in ProvidersFor(use_ai), t2 \in StoreTimes(use_ai) :
         ProcessContact(i, c, use_ai, p, t2)
  \/ \E i \in live, c \in Prospects, p \in Providers : GenerateWithAI(i, c, p)
  \/ \E i \in live, c \in Prospects : GenerateWithTemplate(i, c)
  \/ \E i \in live, use_ai \in BOOLEAN, cs \in SeqsUpTo(CsvContacts, MaxBatch) :
       \E ps \in [1..Len(cs) -> IF use_ai THEN BatchProviders ELSE {NoProvider}] :
         ProcessContacts(i, cs, use_ai, ps)
  \/ \E i \in live, c \in {Alice}, d \in PutData :
       SaveToCache(i, c.email, c.company, d)
  \/ ClearCache
  \/ Tick
  \/ \E r \in Rosters : SetRoster(r)

Spec == Init /\ [][Next]_vars

(***************************************************************************)
(* Concurrent requests                                                     *)
(*                                                                         *)
(* Two callers run process_contact (template mode) at the same time.  The  *)
(* lookup and the local store are one step each; sync_with_friends_cache   *)
(* is taken statement by statement, as nothing in it holds a lock.         *)
(***************************************************************************)
ConcContacts == {Alice, Bob}

InitConc ==
  /\ live = Instances
  /\ cache_file = AbsentFile
  /\ cache = [i \in Instances |-> load_cache(cache_file)]
  /\ friends_cache = AbsentFile
  /\ friends_data = "absent"
  /\ api = ApiValid
  /\ now = 0
  /\ last = NoCall
  /\ returned = [i \in Instances |-> EmptyMap]
  /\ cleared = {}
  /\ req = [r \in Requests |-> Idle]

At(r, pc) == req[r].pc = pc

Goto(r, pc) == req' = [req EXCEPT ![r].pc = pc]

\* The dumps made so far, counted.
Dumps == Cardinality({q \in Requests : req[q].order > 0})

\* process_contact up to its call of save_to_cache: the lookup, and on a miss
\* the template.
Started(r, i, contact_info, v, g) ==
  /\ At(r, "idle")
  /\ Commit(i, v.s)
  /\ req' = [req EXCEPT ![r] =
               [Idle EXCEPT !.inst = i, !.contact = contact_info,
                            !.pc = IF v.found \/ g.raised THEN "done" ELSE "store",
                            !.email_data = IF v.found THEN v.s.cache[IdOf(contact_info)].email_data
                                           ELSE g.data]]
  /\ UNCHANGED <<friends_data, api, now, last, live, cleared>>

Begin(r, i, contact_info) ==
  Started(r, i, contact_info,
          verify_contact_in_cache(Store(i), contact_info.email, contact_info.company),
          TemplateResults[contact_info])

\* save_to_cache: self.cache[contact_id] = {...}; self.save_cache()
StoreStep(r) ==
  LET i == req[r].inst
      s == StoreLocal(Store(i), IdOf(req[r].contact), req[r].email_data, now)
  IN  /\ At(r, "store")
      /\ Commit(i, s)
      /\ Goto(r, "roster")
      /\ UNCHANGED <<friends_data, api, now, last, live, cleared>>

\* sync_with_friends_cache: the roster is read and the entry is prepared.
RosterStep(r) ==
  /\ At(r, "roster")
  /\ req' = [req EXCEPT ![r].pc = IF friends_data = "sharing" THEN "read" ELSE "done",
                        ![r].timestamp = now]
  /\ UNCHANGED <<cache, cache_file, friends_cache, friends_data, api, now, last,
                 returned, live, cleared>>

\* shared_cache = json.load(f); shared_cache[contact_id] = entry.  A file
\* json.load refuses ends the call, the exception being caught.
ReadStep(r) ==
  LET c == req[r].contact
      entry == SharedEntry(c.email, c.company, req[r].email_data, req[r].timestamp)
  IN  /\ At(r, "read")
      /\ req' = IF friends_cache.kind = "corrupt"
                THEN [req EXCEPT ![r].pc = "done"]
                ELSE [req EXCEPT ![r].pc = "open",
                                 ![r].read = load_cache(friends_cache),
                                 ![r].shared_cache = Upsert(load_cache(friends_cache), IdOf(c), entry)]
      /\ UNCHANGED <<cache, cache_file, friends_cache, friends_data, api, now, last,
                     returned, live, cleared>>

\* Mutant of OpenStep: the file is read again before it is truncated.
OpenRefresh(r) ==
  LET id == IdOf(req[r].contact)
  IN  /\ At(r, "open")
      /\ friends_cache' = TruncatedFile
      /\ req' = [req EXCEPT ![r].pc = "dump",
                            ![r].shared_cache = Upsert(load_cache(friends_cache), id,
                                                       req[r].shared_cache[id])]
      /\ UNCHANGED <<cache, cache_file, friends_data, api, now, last, returned, live, cleared>>

\* open(friends_cache_file, 'w'): the file is truncated.
OpenStep(r) ==
  /\ At(r, "open")
  /\ friends_cache' = TruncatedFile
  /\ Goto(r, "dump")
  /\ UNCHANGED <<cache, cache_file, friends_data, api, now, last, returned, live, cleared>>

\* json.dump(shared_cache, f) and the close of the file: the text goes to
\* offset 0.  Over a file another writer has filled meanwhile, a shorter
\* text leaves the tail of the other's text behind it.
DumpStep(r) ==
  /\ At(r, "dump")
  /\ friends_cache' \in {JsonFile(req[r].shared_cache)}
                         \cup (IF friends_cache.kind = "json" THEN {TruncatedFile} ELSE {})
  /\ req' = [req EXCEPT ![r].pc = "done", ![r].order = Dumps + 1]
  /\ UNCHANGED <<cache, cache_file, friends_data, api, now, last, returned, live, cleared>>

NextConc ==
  \/ \E r \in Requests, i \in live, c \in ConcContacts : Begin(r, i, c)
  \/ \E r \in Requests : StoreStep(r)
  \/ \E r \in Requests : RosterStep(r)
  \/ \E r \in Requests : ReadStep(r)
  \/ \E r \in Requests : OpenStep(r)
  \/ \E r \in Requests : DumpStep(r)
  \/ Tick
  \/ \E roster \in Rosters : SetRoster(roster)

SpecConc == InitConc /\ [][NextConc]_vars

(***************************************************************************)
(* Properties                                                              *)
(***************************************************************************)
Items == {last.items[k] : k \in 1..Len(last.items)}

NonEmptyPair(email_data) ==
  /\ {"subject", "body"} \subseteq DOMAIN email_data
  /\ email_data.subject # << >>
  /\ email_data.body # << >>

\* C1: a generation call (process_contact, generate_email_content_with_ai)
\* for a complete contact for whose identity an earlier call on the same
\* generator returned content, with no cache clear since, returns that same
\* content and does not invoke the provider.
C1_IdentityDeterminism ==
  last.op \in {"process_contact", "generate_email_content_with_ai"} =>
    \A it \in Items :
      (it.contact \in CsvContacts /\ it.prev.known)
        => (it.outcome = Returned(it.prev.data) /\ it.calls = 0)

\* C2: when the AI path of a call fails (invalid credentials, provider error,
\* no strategy parses the answer), the call ends as template mode ends for
\* the same contact: the same {subject, body}.
C2_AiFailureFallback ==
  \A it \in Items :
    it.ai_failed => it.outcome = generate_email_content_with_template(it.contact)

C2_Witness ==
  \E it \in Items : it.ai_failed /\ it.calls = 1 /\ ~it.outcome.raised

\* C3: no entry point generates content, by template or AI, for an identity
\* that is in the local cache when the call starts.
C3_CacheReadFirst ==
  \A it \in Items : it.hit => it.generated = "none"

\* C4: a call of process_contact or process_contacts that produced new
\* content leaves the identity in the local cache (memory and file) and,
\* with a sharing peer in the roster, in the shared cache.
C4_PersistAfterGeneration ==
  last.op \in {"process_contact", "process_contacts"} =>
    \A it \in Items :
      it.generated # "none" =>
        /\ IdOf(it.contact) \in DOMAIN cache[last.inst]
        /\ IdOf(it.contact) \in DOMAIN load_cache(cache_file)
        /\ last.sharing => IdOf(it.contact) \in DOMAIN load_cache(friends_cache)

Found(i, contact_info) ==
  verify_contact_in_cache(Store(i), contact_info.email, contact_info.company).found

\* C6 as claimed: after a clear the file holds the empty object and the
\* lookup reports not-found for every identity the clear removed, until it
\* is generated again.
C6_ClearForgetsAll ==
  /\ last.op = "clear_cache" => cache_file = JsonFile(EmptyMap)
  /\ \A c \in {p \in Prospects : HasIdentity(p)} :
       IdOf(c) \in cleared => ~Found(RouteInstance, c)

\* C6 amended: after a clear the memory is empty and the file holds the empty
\* object, and the lookup reports not-found for every identity the clear
\* removed that is not in the shared cache file, until it is generated again.
C6_ClearForgetsLocal ==
  /\ last.op = "clear_cache" =>
       cache[RouteInstance] = EmptyMap /\ cache_file = JsonFile(EmptyMap)
  /\ \A c \in {p \in Prospects : HasIdentity(p)} :
       (IdOf(c) \in cleared /\ IdOf(c) \notin DOMAIN load_cache(friends_cache))
         => ~Found(RouteInstance, c)

C6_Witness ==
  /\ last.op = "process_contact"
  /\ \E it \in Items : /\ IdOf(it.contact) \in cleared
                        /\ ~it.hit /\ ~it.shared_hit /\ ~it.from_cache
  /\ \E id \in cleared : id \notin DOMAIN load_cache(friends_cache)

EmailDataOf(file) ==
  [id \in DOMAIN load_cache(file) |-> load_cache(file)[id].email_data]

C8_RaisesOnlyWithoutIdentity ==
  last.op \in {"process_contact", "generate_email_content_with_ai",
               "generate_email_content_with_template"} =>
    \A it \in Items : HasIdentity(it.contact) => ~it.outcome.raised

EntriesOf(file) == {load_cache(file)[id] : id \in DOMAIN load_cache(file)}

\* C9: every {subject, body} a generation call returns, and every one held
\* by the local cache, its file or the shared file, has a non-empty subject
\* and a non-empty body.
C9_NonEmptyFields ==
  /\ \A it \in Items : ~it.outcome.raised => NonEmptyPair(it.outcome.data)
  /\ \A i \in live : \A id \in DOMAIN cache[i] : NonEmptyPair(cache[i][id].email_data)
  /\ \A e \in EntriesOf(cache_file) \cup EntriesOf(friends_cache) : NonEmptyPair(e.email_data)

\* Requests r and q, both complete, both having written the shared file, q
\* last, for different identities.
Raced(r, q) ==
  /\ r # q
  /\ At(r, "done") /\ At(q, "done")
  /\ 0 < req[r].order /\ req[r].order < req[q].order
  /\ IdOf(req[r].contact) # IdOf(req[q].contact)

\* C10: when two concurrent requests for different identities both complete
\* their mirroring and the one that wrote last had read the shared file
\* before the other wrote, the shared file does not hold the other's entry:
\* the update is lost.
C10_LostUpdate ==
  \A r, q \in Requests :
    (Raced(r, q) /\ IdOf(req[r].contact) \notin DOMAIN req[q].read)
      => IdOf(req[r].contact) \notin DOMAIN load_cache(friends_cache)

C10_Witness ==
  \E r, q \in Requests :
    /\ Raced(r, q)
    /\ friends_cache.kind = "json"
    /\ DOMAIN friends_cache.data = {IdOf(req[q].contact)}

\* The entries instance i holds before the step are the same after it.
EntriesKept(i) ==
  \A id \in DOMAIN cache[i] : id \in DOMAIN cache'[i] /\ cache'[i][id] = cache[i][id]

\* The entries a call stored first are the ones the cache holds after it.
FirstKept ==
  \A k \in 1..Len(last'.items) :
    last'.items[k].first.known =>
      cache'[last'.inst][IdOf(last'.items[k].contact)] = last'.items[k].first.entry

\* C11: no step of a generator other than a clear (or the construction of a
\* new generator) removes or replaces an entry of its local cache, email_data
\* and timestamp, and the call that creates an entry leaves it as created.
C11_EntriesImmutable ==
  [][/\ \A i \in live : last'.op \notin {"clear_cache", "construct"} => EntriesKept(i)
     /\ FirstKept]_vars

(***************************************************************************)
(* The generation entry points under every shape of the configuration      *)
(***************************************************************************)
InitApi ==
  /\ live = {RouteInstance}
  /\ cache_file = AbsentFile
  /\ cache = [i \in Instances |-> load_cache(cache_file)]
  /\ friends_cache = AbsentFile
  /\ friends_data = "absent"
  /\ api \in ApiShapes
  /\ now = 0
  /\ last = NoCall
  /\ returned = [i \in Instances |-> EmptyMap]
  /\ cleared = {}
  /\ req = [r \in Requests |-> Idle]

NextApi ==
  \/ \E c \in Prospects, use_ai \in BOOLEAN :
       \E p \in ProvidersFor(use_ai), t2 \in StoreTimes(use_ai) :
         ProcessContact(RouteInstance, c, use_ai, p, t2)
  \/ \E c \in Prospects, p \in Providers : GenerateWithAI(RouteInstance, c, p)
  \/ \E cs \in SeqsUpTo(CsvContacts, MaxBatch) :
       \E ps \in [1..Len(cs) -> BatchProviders] :
         ProcessContacts(RouteInstance, cs, TRUE, ps)
  \/ ClearCache

SpecApi == InitApi /\ [][NextApi]_vars

\* The configuration lacks a key, an endpoint or a deployment name, or its key
\* is shorter than ten characters, or its endpoint is not an https URL of an
\* expected Azure host.
Misconfigured ==
  \/ api.api_key < MinKeyLen
  \/ ~api.endpoint.present \/ ~api.endpoint.https \/ ~api.endpoint.azure_host
  \/ ~api.deployment_name

\* C12: under a configuration that is incomplete or fails verification, no
\* generation call invokes the provider, and a call that has to generate
\* content gives what the template gives.
C12_FailFast ==
  Misconfigured =>
    \A k \in 1..Len(last.items) :
      /\ last.items[k].calls = 0
      /\ last.items[k].generated # "ai"
      /\ (HasIdentity(last.items[k].contact) /\ ~last.items[k].hit /\ ~last.items[k].from_cache)
           => last.items[k].outcome = TemplateResults[last.items[k].contact]

\* An AI-mode call under a well-formed key but an endpoint that is not https
\* ended on the template's content.
C12_Witness ==
  /\ api = ApiHttp
  /\ last.use_ai
  /\ \E k \in 1..Len(last.items) :
       /\ last.items[k].generated = "template"
       /\ last.items[k].ai_failed
       /\ last.items[k].calls = 0

Legacy == <<"l","e","g","a","c","y"," ","m","a","i","n","f","r","a","m","e">>
Cost   == <<"C","o","s","t">>
OnPrem == <<"o","n","-","p","r","e","m","i","s","e">>

PositionValues ==
  {None, << >>, <<"C","T","O">>, <<"s","a","l","e","s">>, <<"c","o","o","k">>}
IndustryValues == {None, <<"t","e","c","h">>}
ListValues ==
  {<< >>, <<Legacy>>, <<Cost, Legacy>>, <<OnPrem, Cost>>, <<None>>, <<Legacy, None>>}
ChallengeLists ==
  {<< >>, <<"reduction des couts">>,
   <<"reduction des couts", "migration vers le cloud">>,
   <<"reduction des couts", "reduction des couts">>}

\* A key is absent, or present with one of the values.
Optional(values) ==
  {[present |-> FALSE, value |-> << >>]} \cup {[present |-> TRUE, value |-> v] : v \in values}

KeysOf(p, i, t, k, c) ==
  {x \in {"position", "industry", "technologies", "keywords", "challenges"} :
     \/ x = "position" /\ p.present
     \/ x = "industry" /\ i.present
     \/ x = "technologies" /\ t.present
     \/ x = "keywords" /\ k.present
     \/ x = "challenges" /\ c.present}

ChallengeRecords ==
  {[NoFields EXCEPT !.has = KeysOf(p, i, t, k, c), !.position = p.value,
                    !.industry = i.value, !.technologies = t.value,
                    !.keywords = k.value, !.challenges = c.value] :
     p \in Optional(PositionValues), i \in Optional(IndustryValues),
     t \in Optional(ListValues), k \in Optional(ListValues), c \in Optional(ChallengeLists)}

\* What a call of the function gave: the list, or the exception.
Inferred(contact_info, challenges) ==
  [contact |-> contact_info,
   outcome |-> IF challenges = AttributeError THEN Raised ELSE Returned(challenges)]

InitInfer ==
  /\ live = {RouteInstance}
  /\ cache_file = AbsentFile
  /\ cache = [i \in Instances |-> load_cache(cache_file)]
  /\ friends_cache = AbsentFile
  /\ friends_data = "absent"
  /\ api = ApiValid
  /\ now = 0
  /\ \E c \in ChallengeRecords :
       last = [NoCall EXCEPT !.op = "record", !.items = <<[contact |-> c, outcome |-> Raised]>>]
  /\ returned = [i \in Instances |-> EmptyMap]
  /\ cleared = {}
  /\ req = [r \in Requests |-> Idle]

ExtractCompanyChallenges ==
  /\ last.op = "record"
  /\ last' = [last EXCEPT
                !.op = "extract_company_challenges",
                !.items = <<Inferred(last.items[1].contact,
                                     extract_company_challenges(last.items[1].contact))>>]
  /\ UNCHANGED <<cache, cache_file, friends_cache, friends_data, api, now, returned,
                 live, cleared, req>>

SpecInfer == InitInfer /\ [][ExtractCompanyChallenges]_vars

\* The call of extract_company_challenges has been made, on this record.
Extracted == last.op = "extract_company_challenges"
Record == last.items[1].contact
Result == last.items[1].outcome

\* The record carries an explicit, non-empty challenges list.
Explicit(contact_info) ==
  "challenges" \in contact_info.has /\ contact_info.challenges # << >>

\* The strings of a list-valued key, none when the key is absent.
Strings(contact_info, key) ==
  IF key \in contact_info.has THEN contact_info[key] ELSE << >>

\* No field that the inference reads as a string holds None.
WellTyped(contact_info) ==
  /\ "position" \in contact_info.has => contact_info.position # None
  /\ "industry" \in contact_info.has => contact_info.industry # None
  /\ ~InSeq(None, Strings(contact_info, "technologies"))
  /\ ~InSeq(None, Strings(contact_info, "keywords"))

\* C14: whatever the record, fields absent or empty included, the list that
\* extract_company_challenges returns holds at least one tag; on a record
\* whose fields are strings and lists of strings it does return.
C14_NeverEmpty ==
  Extracted =>
    /\ ~Result.raised => Len(Result.data) >= 1
    /\ WellTyped(Record) => ~Result.raised

\* The record has no key at all, or only empty values, and one tag came back.
C14_Witness ==
  /\ Extracted
  /\ \A key \in Record.has : Record[key] = << >>
  /\ ~Result.raised
  /\ Len(Result.data) = 1

\* C15: extract_company_challenges returns normally for every record, a None
\* position, industry, technology or keyword included.
C15_NeverThrows == Extracted => ~Result.raised

NoDuplicate(list) ==
  \A i, j \in 1..Len(list) : i # j => list[i] # list[j]

\* The tags whose keyword occurs in a string of the list.
TagsOf(list) ==
  {tech_challenge_map[k].challenge :
     k \in {x \in 1..Len(tech_challenge_map) :
              \E e \in 1..Len(list) :
                Contains(Lower(list[e]), Lower(tech_challenge_map[x].keyword))}}

Index(list, tag) == CHOOSE i \in 1..Len(list) : list[i] = tag

\* C16 as stated: the returned list holds no tag twice, whether inferred or
\* given explicitly.
C16_NoDuplicate == (Extracted /\ ~Result.raised) => NoDuplicate(Result.data)

\* C16 amended: a list inferred from technologies and keywords holds each
\* matching tag once, the tags of the technologies before those that only
\* the keywords give; an explicit challenges list is returned as given,
\* duplicates included.
C16_NoDuplicateInferred ==
  (Extracted /\ ~Result.raised) =>
    IF Explicit(Record) THEN Result.data = Record.challenges
    ELSE /\ NoDuplicate(Result.data)
         /\ LET t == TagsOf(Strings(Record, "technologies"))
                k == TagsOf(Strings(Record, "keywords"))
            IN  (t \cup k # {}) =>
                  /\ {Result.data[i] : i \in 1..Len(Result.data)} = t \cup k
                  /\ \A a \in t, b \in k \ t :
                       Index(Result.data, a) < Index(Result.data, b)

\* Technologies and keywords gave the same tag, and a tag each of their own.
C16_Witness ==
  /\ Extracted /\ ~Result.raised /\ ~Explicit(Record)
  /\ TagsOf(Strings(Record, "technologies")) \cap TagsOf(Strings(Record, "keywords")) # {}
  /\ TagsOf(Strings(Record, "keywords")) \ TagsOf(Strings(Record, "technologies")) # {}
  /\ Len(Result.data) >= 2

(***************************************************************************)
(* Template substitution on its own                                        *)
(*                                                                         *)
(* The two substitution passes of the source: replace_variables with its   *)
(* {{var}} markers (the templates of generate_email_content) and the [Var] *)
(* markers of the default template.  A text is a sequence of tokens, a     *)
(* marker being one token, so that a value may carry the marker of another *)
(* placeholder.                                                            *)
(***************************************************************************)
Marker(var) == "{{" \o var \o "}}"

\* The "lastchance" template of generate_email_content (lines 254-266).
lastchance_subject == <<"Derniere chance - Opportunite pour ", "{{company}}">>

lastchance_body ==
  << "Bonjour ", "{{first_name}}",
     ",\n\nJe vous ai contacte recemment concernant une opportunite qui pourrait etre interessante pour ",
     "{{company}}",
     ".\n\nC'est ma derniere tentative de contact. Si vous etes interesse par une discussion, n'hesitez pas a me repondre a ce message.\n\nCordialement,\n",
     "{{your_name}}", "\n", "{{your_position}}", " | ", "{{company_name}}", "\n",
     "{{your_contact}}" >>

\* The sender's entries of all_vars, in the order of the dict literal.
SenderVars ==
  << [var |-> "your_name", value |-> your_name],
     [var |-> "your_position", value |-> your_position],
     [var |-> "company_name", value |-> company_name],
     [var |-> "your_contact", value |-> your_contact] >>

VarsOf(all_vars) == {all_vars[k].var : k \in 1..Len(all_vars)}

ValueOf(all_vars, var) ==
  all_vars[CHOOSE k \in 1..Len(all_vars) : all_vars[k].var = var].value

IsOwn(x) == x.var \notin VarsOf(SenderVars)

\* {**sender, **variables}: a key the sender holds keeps its place and takes
\* the value of variables; the other keys of variables follow in their order.
AllVars(variables) ==
  [k \in 1..Len(SenderVars) |->
     IF SenderVars[k].var \in VarsOf(variables)
     THEN [var |-> SenderVars[k].var, value |-> ValueOf(variables, SenderVars[k].var)]
     ELSE SenderVars[k]]
    \o SelectSeq(variables, IsOwn)

\* for var, value in all_vars.items():
\*     template = template.replace("{{" + var + "}}", value or "")
RECURSIVE ReplaceEach(_, _)
ReplaceEach(template, all_vars) ==
  IF all_vars = << >> THEN template
  ELSE ReplaceEach(Replace(template, Marker(Head(all_vars).var),
                           IF Head(all_vars).value = None THEN << >> ELSE Head(all_vars).value),
                   Tail(all_vars))

replace_variables(template, variables) == ReplaceEach(template, AllVars(variables))

\* Values a contact may carry: plain ones, and ones that hold the marker of
\* a placeholder.
RenderValues ==
  {<<"Alice">>, <<"[FirstName]">>, <<"[Company]">>, <<"[YourName]">>,
   <<"{{first_name}}">>, <<"{{company}}">>, <<"{{your_name}}">>}

RenderRecords ==
  {[Alice EXCEPT !.first_name = f, !.company = c] : f \in RenderValues, c \in RenderValues}

\* The order of the keys of prospect_info, that of the columns it came from.
KeyOrders == {<<"first_name", "company">>, <<"company", "first_name">>}

Variables(contact_info, order) ==
  [k \in 1..Len(order) |-> [var |-> order[k], value |-> contact_info[order[k]]]]

InitRender ==
  /\ live = {RouteInstance}
  /\ cache_file = AbsentFile
  /\ cache = [i \in Instances |-> load_cache(cache_file)]
  /\ friends_cache = AbsentFile
  /\ friends_data = "absent"
  /\ api = ApiValid
  /\ now = 0
  /\ \E c \in RenderRecords :
       last = [NoCall EXCEPT !.op = "record", !.items = <<[contact |-> c, outcome |-> Raised]>>]
  /\ returned = [i \in Instances |-> EmptyMap]
  /\ cleared = {}
  /\ req = [r \in Requests |-> Idle]

Rendered(op, items) ==
  /\ last' = [last EXCEPT !.op = op, !.items = items]
  /\ UNCHANGED <<cache, cache_file, friends_cache, friends_data, api, now, returned,
                 live, cleared, req>>

\* The default template, rendered for the record.
RenderDefault ==
  /\ last.op = "record"
  /\ Rendered("generate_email_content_with_template",
              <<[contact |-> last.items[1].contact,
                 outcome |-> generate_email_content_with_template(last.items[1].contact)]>>)

\* The lastchance template, rendered for the record.
RenderStage(order) ==
  /\ last.op = "record"
  /\ Rendered("replace_variables",
              <<[contact |-> last.items[1].contact,
                 outcome |-> Returned(
                   [subject |-> replace_variables(lastchance_subject,
                                                  Variables(last.items[1].contact, order)),
                    body    |-> replace_variables(lastchance_body,
                                                  Variables(last.items[1].contact, order))])]>>)

NextRender ==
  \/ RenderDefault
  \/ \E order \in KeyOrders : RenderStage(order)

SpecRender == InitRender /\ [][NextRender]_vars

\* The markers of the placeholders that the sender and the contact supply.
BracketMarkers ==
  {"[FirstName]", "[Company]", "[Industry]", "[YourName]", "[YourCompany]",
   "[YourPosition]", "[YourContact]"}

BraceMarkers ==
  {Marker(v) : v \in VarsOf(SenderVars) \cup {"first_name", "company"}}

Free(markers, email_data) ==
  \A x \in markers : ~InSeq(x, email_data.subject) /\ ~InSeq(x, email_data.body)

\* C17: the rendered subject and body hold no marker of a placeholder that
\* the sender profile or the contact record supplies, also when a supplied
\* value holds the marker of another placeholder.
C17_SubstitutionTotal ==
  /\ (last.op = "generate_email_content_with_template" /\ ~last.items[1].outcome.raised)
       => Free(BracketMarkers, last.items[1].outcome.data)
  /\ last.op = "replace_variables" => Free(BraceMarkers, last.items[1].outcome.data)

(***************************************************************************)
(* The cache store and the shared file on their own                        *)
(*                                                                         *)
(* One generator stores, looks up and generates (template mode) for two    *)
(* contacts, starting on a shared file that is absent, holds an entry of   *)
(* a peer, or is not parseable (as an interrupted dump leaves it).         *)
(***************************************************************************)
SharedContacts == {Alice, Bob}

SharedPutData == {[subject |-> Hi, body |-> Yo], [subject |-> Yo, body |-> Hi]}

SharedFiles ==
  {AbsentFile, TruncatedFile,
   JsonFile(Upsert(EmptyMap, IdOf(Bob),
                   SharedEntry(Bob.email, Bob.company, [subject |-> Hi, body |-> Yo], 0)))}

InitShared ==
  /\ live = {RouteInstance}
  /\ cache_file = AbsentFile
  /\ cache = [i \in Instances |-> load_cache(cache_file)]
  /\ friends_cache \in SharedFiles
  /\ friends_data \in Rosters
  /\ api = ApiValid
  /\ now = 0
  /\ last = NoCall
  /\ returned = [i \in Instances |-> EmptyMap]
  /\ cleared = {}
  /\ req = [r \in Requests |-> Idle]

\* What a lookup did: v is what it gave, on the store it started on.
Lookup(i, email, company, v) ==
  [contact |-> [email |-> email, company |-> company],
   found   |-> v.found,
   raised  |-> v.raised,
   hit     |-> ContactId(email, company) \in DOMAIN cache[i],
   shared  |-> friends_cache]

\* The lookup that gave v.
Verified(i, email, company, v) ==
  /\ Commit(i, v.s)
  /\ last' = Call("verify_contact_in_cache", i, FALSE, <<Lookup(i, email, company, v)>>)
  /\ UNCHANGED <<friends_data, api, now, live, cleared, req>>

\* verify_contact_in_cache called by a user of the class.
VerifyContactInCache(i, email, company) ==
  Verified(i, email, company, verify_contact_in_cache(Store(i), email, company))

NextShared ==
  \/ \E c \in SharedContacts, d \in SharedPutData :
       SaveToCache(RouteInstance, c.email, c.company, d)
  \/ \E c \in SharedContacts : VerifyContactInCache(RouteInstance, c.email, c.company)
  \/ \E c \in SharedContacts : ProcessContact(RouteInstance, c, FALSE, NoProvider, now)
  \/ Tick
  \/ \E r \in Rosters : SetRoster(r)

SpecShared == InitShared /\ [][NextShared]_vars

\* The file holds, under the identity of the put, the entry of the put.
HoldsEntry(file, put) ==
  /\ file.kind = "json"
  /\ ContactId(put.email, put.company) \in DOMAIN file.data
  /\ file.data[ContactId(put.email, put.company)].email = put.email
  /\ file.data[ContactId(put.email, put.company)].company = put.company
  /\ file.data[ContactId(put.email, put.company)].email_data = put.email_data
  /\ file.data[ContactId(put.email, put.company)].timestamp \in 0..MaxClock

\* Every identity of the file before, but the one of the put, has the same
\* entry in the file after.
OthersKept(before, after, put) ==
  \A id \in (DOMAIN load_cache(before)) \ {ContactId(put.email, put.company)} :
    id \in DOMAIN load_cache(after) /\ load_cache(after)[id] = load_cache(before)[id]

\* C18: after a put made while a peer of the roster shares, the shared file
\* holds the entry of the put under its identity, and the entry of every
\* other identity is the one it held before.
C18_SyncPostcondition ==
  [][(last'.op = "save_to_cache" /\ last'.sharing)
       => /\ HoldsEntry(friends_cache', last'.put)
          /\ OthersKept(friends_cache, friends_cache', last'.put)]_vars

\* C19: a step taken while the roster is absent or lists no sharing friend
\* leaves the shared file as it is, and an absent file absent.
C19_NoPeersNoSync ==
  [][friends_data # "sharing" => friends_cache' = friends_cache]_vars

\* A put was stored locally with no sharing peer, and there is no shared file.
C19_Witness ==
  /\ last.op = "save_to_cache" /\ ~last.sharing
  /\ ContactId(last.put.email, last.put.company) \in DOMAIN cache[last.inst]
  /\ friends_cache = AbsentFile

\* C20: a lookup of an identity the local cache lacks, made while the shared
\* file is missing or not parseable, reports not-found without raising and
\* leaves the local cache, memory and file, as they were.
C20_LookupNeverRaises ==
  [][(/\ last'.op = "verify_contact_in_cache"
      /\ ~last'.items[1].hit
      /\ last'.items[1].shared.kind # "json")
       => /\ ~last'.items[1].raised
          /\ ~last'.items[1].found
          /\ cache' = cache
          /\ cache_file' = cache_file]_vars

\* A lookup met a shared file that is not parseable and reported not-found.
C20_Witness ==
  /\ last.op = "verify_contact_in_cache"
  /\ ~last.items[1].hit
  /\ last.items[1].shared.kind = "corrupt"
  /\ ~last.items[1].found /\ ~last.items[1].raised
  /\ ContactId(last.items[1].contact.email, last.items[1].contact.company)
       \notin DOMAIN cache[last.inst]

(***************************************************************************)
(* Puts whose write of the backing file fails                              *)
(*                                                                         *)
(* io is how the write inside save_cache ends: "ok", "open" (open() for    *)
(* writing raises, the file is as before) or "dump" (json.dump raises      *)
(* after open() truncated the file).  save_cache catches the exception     *)
(* and logs it (lines 722-723).                                            *)
(***************************************************************************)
WriteOutcomes == {"ok", "open", "dump"}

save_cache_io(s, io) ==
  [s EXCEPT !.file = CASE io = "ok"   -> JsonFile(s.cache)
                       [] io = "open" -> s.file
                       [] io = "dump" -> TruncatedFile]

\* Mutant of StoreLocalIo: the entry is kept in memory only when the file
\* was written.
StoreIfWritten(s, contact_id, email_data, t, io) ==
  IF io = "ok"
  THEN save_cache_io([s EXCEPT !.cache = Upsert(s.cache, contact_id, LocalEntry(email_data, t))], io)
  ELSE save_cache_io(s, io)

\* self.cache[contact_id] = {...}; self.save_cache()
StoreLocalIo(s, contact_id, email_data, t, io) ==
  save_cache_io([s EXCEPT !.cache = Upsert(s.cache, contact_id, LocalEntry(email_data, t))], io)

\* save_to_cache; nothing in it raises past save_cache's and
\* sync_with_friends_cache's own except clauses.
save_to_cache_io(s, roster, email, company, email_data, t, io) ==
  [raised |-> FALSE,
   s |-> sync_with_friends_cache(StoreLocalIo(s, ContactId(email, company), email_data, t, io),
                                 roster, email, company, email_data, t)]

\* The put that gave r.
PutDone(i, email, company, email_data, io, r) ==
  /\ Commit(i, r.s)
  /\ last' = [Call("save_to_cache", i, FALSE, <<[io |-> io, raised |-> r.raised]>>) EXCEPT
                !.put = [email |-> email, company |-> company, email_data |-> email_data]]
  /\ UNCHANGED <<friends_data, api, now, live, cleared, req>>

SaveToCacheIo(i, email, company, email_data, io) ==
  PutDone(i, email, company, email_data, io,
          save_to_cache_io(Store(i), friends_data, email, company, email_data, now, io))

InitDisk ==
  /\ live = {RouteInstance}
  /\ cache_file = AbsentFile
  /\ cache = [i \in Instances |-> load_cache(cache_file)]
  /\ friends_cache = AbsentFile
  /\ friends_data = "absent"
  /\ api = ApiValid
  /\ now = 0
  /\ last = NoCall
  /\ returned = [i \in Instances |-> EmptyMap]
  /\ cleared = {}
  /\ req = [r \in Requests |-> Idle]

NextDisk ==
  \/ \E c \in SharedContacts, d \in SharedPutData, io \in WriteOutcomes :
       SaveToCacheIo(RouteInstance, c.email, c.company, d, io)
  \/ \E c \in SharedContacts : VerifyContactInCache(RouteInstance, c.email, c.company)
  \/ \E c \in SharedContacts : ProcessContact(RouteInstance, c, FALSE, NoProvider, now)

SpecDisk == InitDisk /\ [][NextDisk]_vars

\* The step is a lookup, by verify_contact_in_cache or process_contact, of an
\* identity that instance i holds, and it is a hit that gives the entry held.
HitsHeld(i) ==
  /\ (last'.op = "verify_contact_in_cache" /\ last' # last /\ last'.items[1].hit)
       => last'.items[1].found /\ ~last'.items[1].raised
  /\ (last'.op = "process_contact" /\ last' # last /\ last'.items[1].hit)
       => /\ last'.items[1].from_cache
          /\ last'.items[1].outcome =
               Returned(cache[i][IdOf(last'.items[1].contact)].email_data)

\* C21: a put whose write of the backing file fails does not raise and
\* leaves the new entry in memory; no later step of the instance drops an
\* entry from memory, and every lookup of an identity held in memory is a
\* hit that returns the entry held.
C21_MemoryAuthoritative ==
  [][/\ (last'.op = "save_to_cache" /\ last'.items[1].io # "ok" /\ last' # last)
          => /\ ~last'.items[1].raised
             /\ ContactId(last'.put.email, last'.put.company) \in DOMAIN cache'[last'.inst]
             /\ cache'[last'.inst][ContactId(last'.put.email, last'.put.company)].email_data
                  = last'.put.email_data
     /\ DOMAIN cache[RouteInstance] \subseteq DOMAIN cache'[RouteInstance]
     /\ HitsHeld(RouteInstance)]_vars

\* After a put whose write failed, the file lacks the entry that a lookup
\* of process_contact then returned from memory.
C21_Witness ==
  /\ last.op = "process_contact"
  /\ last.items[1].hit /\ last.items[1].from_cache
  /\ IdOf(last.items[1].contact) \notin DOMAIN load_cache(cache_file)

(***************************************************************************)
(* Construction on every shape of the backing file                         *)
(***************************************************************************)
LocalFiles ==
  {AbsentFile, TruncatedFile,
   JsonFile(Upsert(EmptyMap, IdOf(Alice), LocalEntry([subject |-> Hi, body |-> Yo], 0)))}

InitLoad ==
  /\ live = {RouteInstance}
  /\ cache_file \in LocalFiles
  /\ cache = [i \in Instances |-> load_cache(cache_file)]
  /\ friends_cache = AbsentFile
  /\ friends_data = "absent"
  /\ api = ApiValid
  /\ now = 0
  /\ last = NoCall
  /\ returned = [i \in Instances |-> EmptyMap]
  /\ cleared = {}
  /\ req = [r \in Requests |-> Idle]

NextLoad ==
  \/ Construct(RouteInstance)
  \/ \E c \in SharedContacts, d \in SharedPutData, io \in WriteOutcomes :
       SaveToCacheIo(RouteInstance, c.email, c.company, d, io)
  \/ \E c \in SharedContacts : VerifyContactInCache(RouteInstance, c.email, c.company)

SpecLoad == InitLoad /\ [][NextLoad]_vars

\* C22: a generator constructed on a backing file that is absent or that
\* json.load refuses holds an empty store, and one constructed on a file
\* that holds an object holds that object.
C22_LoadNeverFails ==
  last.op \in {"init", "construct"} =>
    cache[RouteInstance] = (IF cache_file.kind = "json" THEN cache_file.data ELSE EmptyMap)

\* A generator was constructed on a file that json.load refuses, and holds
\* nothing.
C22_Witness ==
  /\ last.op = "construct"
  /\ cache_file = TruncatedFile
  /\ cache[RouteInstance] = EmptyMap

\* The text holds the tokens of the value, in a row.
Holds(text, value) == Contains(text, value)

\* C23: in template mode the contact Alice Martin of Acme, a CTO with the
\* technology "legacy mainframe", gets an email whose challenge is the
\* modernisation of legacy systems, whose subject holds "Acme" and whose
\* body holds the sender's name and "Alice".
C23_OutreachScenario ==
  /\ SelectedChallenge(extract_company_challenges(Alice)) = "modernisation des systemes herites"
  /\ \A k \in 1..Len(last.items) :
       (/\ last.op \in {"process_contact", "generate_email_content_with_template"}
        /\ ~last.use_ai
        /\ last.items[k].contact = Alice
        /\ last.items[k].generated = "template")
         => /\ ~last.items[k].outcome.raised
            /\ Holds(last.items[k].outcome.data.subject, <<"legacy system modernization">>)
            /\ Holds(last.items[k].outcome.data.subject, <<"Acme">>)
            /\ Holds(last.items[k].outcome.data.body, your_name)
            /\ Holds(last.items[k].outcome.data.body, <<"Alice">>)
            /\ Holds(last.items[k].outcome.data.body, <<"legacy system modernization">>)

\* process_contact generated Alice's email from the template.
C23_Witness ==
  /\ last.op = "process_contact" /\ ~last.use_ai
  /\ last.items[1].contact = Alice
  /\ last.items[1].generated = "template"
  /\ ~last.items[1].from_cache

(***************************************************************************)
(* One generation call, statement by statement                             *)
(*                                                                         *)
(* The frame of the call is kept in last: where the call is (pc), the      *)
(* registers of the line scan (i, body_start, body_end, subject, body) and *)
(* what the call meets: a local or shared hit, a provider that fails or    *)
(* answers with a response.  A provider call and a file operation are one  *)
(* step each: they return or fail.                                         *)
(***************************************************************************)
\* Body: Yo\nbye\nTo: x\nSubject: Hi
RespBodyFirst ==
  [lines  |-> << <<"B","o","d","y",":"," ","Y","o">>,
                 <<"b","y","e">>,
                 <<"T","o",":"," ","x">>,
                 <<"S","u","b","j","e","c","t",":"," ","H","i">> >>,
   json   |-> "invalid",
   object |-> NoData]

RunResponses == Responses \cup {RespBodyFirst}

RunContacts == {Alice, AliceNoFirstName}

\* line.split(':', 1)[1].strip().strip('"').strip() for each line of each
\* response, computed once.
SubjectAt ==
  [r \in RunResponses |->
     [k \in 1..Len(r.lines) |->
        IF InSeq(":", r.lines[k]) THEN AfterColon(r.lines[k]) ELSE << >>]]

\* '\n'.join(lines[body_start:body_end]).split(':', 1)[1].strip()... for
\* each run of lines of each response, computed once.
BodyAt ==
  [r \in RunResponses |->
     [s \in 1..Len(r.lines) |->
        [e \in (s + 1)..(Len(r.lines) + 1) |->
           IF InSeq(":", r.lines[s])
           THEN AfterColon(JoinLines(SubSeq(r.lines, s, e - 1))) ELSE << >>]]]

RunOps == {"process_contact", "generate_email_content_with_ai"}

Frame(op, contact_info, use_ai, hit, fails, response) ==
  [op |-> op, contact |-> contact_info, use_ai |-> use_ai, hit |-> hit, fails |-> fails,
   response |-> response, pc |-> "lookup", i |-> 1, body_start |-> 0, body_end |-> 0,
   subject |-> << >>, body |-> << >>, result |-> "none"]

InitRun ==
  /\ live = {RouteInstance}
  /\ cache_file = AbsentFile
  /\ cache = [i \in Instances |-> load_cache(cache_file)]
  /\ friends_cache = AbsentFile
  /\ friends_data = "absent"
  /\ api \in ApiConfigs
  /\ now = 0
  /\ \E op \in RunOps, c \in RunContacts, use_ai, hit, fails \in BOOLEAN, r \in RunResponses :
       /\ op = "generate_email_content_with_ai" => use_ai
       /\ last = Frame(op, c, use_ai, hit, fails, r)
  /\ returned = [i \in Instances |-> EmptyMap]
  /\ cleared = {}
  /\ req = [r \in Requests |-> Idle]

Run(frame) ==
  /\ last' = frame
  /\ UNCHANGED <<cache, cache_file, friends_cache, friends_data, api, now, returned,
                 live, cleared, req>>

\* The cache lookup and the choice of the path (lines 968-976, 1273-1283).
LookupStep ==
  /\ last.pc = "lookup"
  /\ Run(IF last.hit THEN [last EXCEPT !.pc = "done", !.result = "cached"]
         ELSE IF last.use_ai /\ verify_api_configuration(api)
         THEN [last EXCEPT !.pc = "invoke"]
         ELSE [last EXCEPT !.pc = "template"])

\* The provider call (lines 1039-1087): it raises, or gives the text.
InvokeStep ==
  /\ last.pc = "invoke"
  /\ Run(IF last.fails THEN [last EXCEPT !.pc = "template"]
         ELSE [last EXCEPT !.pc = "json"])

\* The JSON strategy (lines 1089-1113).
JsonStep ==
  /\ last.pc = "json"
  /\ Run(IF ParseJson(last.response).ok
         THEN [last EXCEPT !.pc = "store", !.result = "ai"]
         ELSE [last EXCEPT !.pc = "for", !.i = 1])

\* One turn of the for loop over the lines (lines 1123-1136).
ForTurn(lines, line) ==
  IF Contains(Lower(line), <<"s","u","b","j","e","c","t">>) /\ InSeq(":", line)
       /\ last.subject = << >>
  THEN [last EXCEPT !.subject = SubjectAt[last.response][last.i], !.i = last.i + 1]
  ELSE IF Contains(Lower(line), <<"b","o","d","y">>) /\ InSeq(":", line) /\ last.body = << >>
  THEN [last EXCEPT !.pc = "while", !.body_start = last.i, !.body_end = last.i + 1]
  ELSE [last EXCEPT !.i = last.i + 1]

ForStep ==
  /\ last.pc = "for"
  /\ Run(IF last.i > Len(last.response.lines) THEN [last EXCEPT !.pc = "accept"]
         ELSE ForTurn(last.response.lines, last.response.lines[last.i]))

\* Mutant of WhileTurn: body_end is not advanced.
WhileStuck(lines) ==
  IF last.body_end <= Len(lines)
       /\ ~\E key \in StopKeys : Contains(Lower(lines[last.body_end]), key)
  THEN last
  ELSE [last EXCEPT
          !.body = BodyAt[last.response][last.body_start][last.body_end],
          !.i = last.i + 1, !.pc = "for"]

\* One test of the while loop (line 1131), then its body or the statements
\* after it (lines 1134-1135).
WhileTurn(lines) ==
  IF last.body_end <= Len(lines)
       /\ ~\E key \in StopKeys : Contains(Lower(lines[last.body_end]), key)
  THEN [last EXCEPT !.body_end = last.body_end + 1]
  ELSE [last EXCEPT
          !.body = BodyAt[last.response][last.body_start][last.body_end],
          !.i = last.i + 1, !.pc = "for"]

WhileStep ==
  /\ last.pc = "while"
  /\ Run(WhileTurn(last.response.lines))

\* if not subject or not body: raise ValueError (line 1137), caught at 1155.
AcceptStep ==
  /\ last.pc = "accept"
  /\ Run(IF last.subject = << >> \/ last.body = << >>
         THEN [last EXCEPT !.pc = "template"]
         ELSE [last EXCEPT !.pc = "store", !.result = "ai"])

\* The template (lines 1161 and 1283): it raises, or its content is stored
\* by process_contact and returned.
TemplateStep ==
  /\ last.pc = "template"
  /\ Run(IF TemplateResults[last.contact].raised
         THEN [last EXCEPT !.pc = "done", !.result = "raised"]
         ELSE IF last.op = "process_contact"
         THEN [last EXCEPT !.pc = "store", !.result = "template"]
         ELSE [last EXCEPT !.pc = "done", !.result = "template"])

\* The store and the mirror (lines 1104-1108, 1145-1149, 1286): file
\* operations whose failures are caught.
StoreOnce ==
  /\ last.pc = "store"
  /\ Run([last EXCEPT !.pc = "done"])

NextRun ==
  \/ LookupStep
  \/ InvokeStep
  \/ JsonStep
  \/ ForStep
  \/ WhileStep
  \/ AcceptStep
  \/ TemplateStep
  \/ StoreOnce

\* The call is the only thread of control: it takes its next step.
SpecRun == InitRun /\ [][NextRun]_vars /\ WF_vars(NextRun)

\* C24: a generation call, once started, comes to its end, with a result or
\* an exception, the line scan of the fallback parser included.
C24_Terminates == <>(last.pc = "done")

\* A call whose line scan ran the while loop over several lines has ended
\* with the content the scan extracted.
C24_Witness ==
  /\ last.pc = "done"
  /\ last.result = "ai"
  /\ last.body_end > last.body_start + 1
  /\ [subject |-> last.subject, body |-> last.body]
       = ScanLines(last.response.lines, 1, << >>, << >>)

(***************************************************************************)
(* Lookup order                                                            *)
(***************************************************************************)
\* The call of process_contact recorded in last met its identity in the
\* local cache.
LocalHit(call) == call.op = "process_contact" /\ call.items[1].hit

\* C25: a process_contact whose identity is in the local cache returns the
\* content of the local entry with from_cache true, generates nothing, and
\* leaves the local cache, its backing file and the shared file as they
\* were, whatever the shared file holds under that identity.
C25_LocalHitFrame ==
  [][LocalHit(last')
       => /\ last'.items[1].from_cache
          /\ ~last'.items[1].outcome.raised
          /\ last'.items[1].outcome.data
               = cache[last'.inst][IdOf(last'.items[1].contact)].email_data
          /\ last'.items[1].generated = "none"
          /\ last'.items[1].calls = 0
          /\ cache' = cache
          /\ cache_file' = cache_file
          /\ friends_cache' = friends_cache]_vars

\* A local hit returned the local content while the shared file holds
\* another content under the same identity.
C25_Witness ==
  /\ LocalHit(last)
  /\ last.items[1].shared_hit
  /\ last.items[1].from_cache
  /\ friends_cache.kind = "json"
  /\ IdOf(last.items[1].contact) \in DOMAIN friends_cache.data
  /\ friends_cache.data[IdOf(last.items[1].contact)].email_data
       # last.items[1].outcome.data
  /\ last.items[1].outcome.data
       = cache[last.inst][IdOf(last.items[1].contact)].email_data

(***************************************************************************)
(* Shape of the local entries                                              *)
(***************************************************************************)
\* Every entry of the map is a record of the fields email_data and timestamp.
LocalShape(entries) ==
  \A id \in DOMAIN entries : DOMAIN entries[id] = {"email_data", "timestamp"}

\* C26: every entry of the local cache, in memory and in the backing file,
\* is a record with exactly the fields email_data and timestamp, however it
\* came to be there.
C26_LocalRecordShape ==
  /\ \A i \in live : LocalShape(cache[i])
  /\ LocalShape(load_cache(cache_file))

(***************************************************************************)
(* The generation entry points under every answer of the provider          *)
(***************************************************************************)
\* The provider answers, with each of the responses.
Answering ==
  {[client |-> TRUE, sdk |-> TRUE, error |-> FALSE, response |-> r] : r \in Responses}

InitParse ==
  /\ live = {RouteInstance}
  /\ cache_file = AbsentFile
  /\ cache = [i \in Instances |-> load_cache(cache_file)]
  /\ friends_cache = AbsentFile
  /\ friends_data = "absent"
  /\ api = ApiValid
  /\ now = 0
  /\ last = NoCall
  /\ returned = [i \in Instances |-> EmptyMap]
  /\ cleared = {}
  /\ req = [r \in Requests |-> Idle]

NextParse ==
  \/ \E c \in SharedContacts, p \in Answering, t2 \in StoreTimes(TRUE) :
       ProcessContact(RouteInstance, c, TRUE, p, t2)
  \/ \E c \in SharedContacts, p \in Answering : GenerateWithAI(RouteInstance, c, p)
  \/ ClearCache
  \/ Tick

SpecParse == InitParse /\ [][NextParse]_vars

\* The content has the keys subject and body, and no other.
TwoKeys(email_data) == DOMAIN email_data = {"subject", "body"}

\* C27: the content a generation call returns, and the content of every
\* entry of the cache, has exactly the keys subject and body, whatever the
\* provider answered.
C27_ResultNormalized ==
  /\ \A item \in Items : ~item.outcome.raised => TwoKeys(item.outcome.data)
  /\ \A id \in DOMAIN cache[RouteInstance] : TwoKeys(cache[RouteInstance][id].email_data)
  /\ \A id \in DOMAIN load_cache(cache_file) : TwoKeys(load_cache(cache_file)[id].email_data)

(***************************************************************************)
(* Puts whose mirror into the shared file fails                            *)
(*                                                                         *)
(* The roster file is absent, lists no sharing friend, lists one, cannot   *)
(* be read as JSON ("unreadable"), or is JSON of another shape, such as a  *)
(* list, on which .get raises ("malformed").  io is how the write of the   *)
(* shared file ends (lines 1357-1358).  The whole body of                  *)
(* sync_with_friends_cache is inside one try (lines 1322-1363).            *)
(***************************************************************************)
SyncRosters == Rosters \cup {"unreadable", "malformed"}

\* An exception is raised inside sync_with_friends_cache.
SyncFails(s, roster, io) ==
  \/ roster \in {"unreadable", "malformed"}
  \/ roster = "sharing" /\ (s.shared.kind = "corrupt" \/ io # "ok")

\* The shared file as sync_with_friends_cache leaves it.
SyncShared(s, roster, email, company, email_data, t, io) ==
  IF roster # "sharing" \/ s.shared.kind = "corrupt" \/ io = "open" THEN s.shared
  ELSE IF io = "dump" THEN TruncatedFile
  ELSE JsonFile(Upsert(load_cache(s.shared), ContactId(email, company),
                       SharedEntry(email, company, email_data, t)))

\* Mutant of sync_with_friends_cache_io: the exception reaches the caller.
SyncRaises(s, roster, email, company, email_data, t, io) ==
  [raised |-> SyncFails(s, roster, io),
   s |-> [s EXCEPT !.shared = SyncShared(s, roster, email, company, email_data, t, io)]]

\* sync_with_friends_cache: every exception is caught and logged (line 1361).
sync_with_friends_cache_io(s, roster, email, company, email_data, t, io) ==
  [raised |-> FALSE,
   s |-> [s EXCEPT !.shared = SyncShared(s, roster, email, company, email_data, t, io)]]

\* save_to_cache: the entry is stored and saved, then mirrored.
save_to_cache_sync(s, roster, email, company, email_data, t, io) ==
  sync_with_friends_cache_io(StoreLocal(s, ContactId(email, company), email_data, t),
                             roster, email, company, email_data, t, io)

\* process_contact after the generation (lines 1285-1292), with the put r.
Stored(g, r, t2) ==
  IF r.raised THEN [g EXCEPT !.s = r.s, !.outcome = Raised]
  ELSE [g EXCEPT !.s = r.s, !.first = FirstOr(g.first, g.outcome.data, t2)]

FinishSync(g, roster, contact_info, t2, io) ==
  IF g.outcome.raised THEN g
  ELSE Stored(g, save_to_cache_sync(g.s, roster, contact_info.email, contact_info.company,
                                    g.outcome.data, t2, io), t2)

\* process_contact after the lookup v (lines 1273-1292).
AfterLookupSync(v, s, roster, contact_info, use_ai, provider, t, t2, io) ==
  IF v.found THEN AfterLookup(v, s, roster, contact_info, use_ai, provider, t, t2)
  ELSE FinishSync(IF use_ai /\ verify_api_configuration(api)
                  THEN generate_email_content_with_ai(s, contact_info, provider, t)
                  ELSE [TemplateCall(s, contact_info) EXCEPT !.ai_failed = use_ai],
                  roster, contact_info, t2, io)

process_contact_sync(s, roster, contact_info, use_ai, provider, t, t2, io) ==
  IF ~HasIdentity(contact_info)
  THEN Out(s, Raised, 0, "none", FALSE)
  ELSE AfterLookupSync(verify_contact_in_cache(s, contact_info.email, contact_info.company),
                       s, roster, contact_info, use_ai, provider, t, t2, io)

\* What the mirror of a call met: reached tells that the call came to
\* sync_with_friends_cache.
Mirror(s, roster, io, reached, raised) ==
  [io |-> io, failed |-> reached /\ SyncFails(s, roster, io), raised |-> raised]

JsonProvider == [client |-> TRUE, sdk |-> TRUE, error |-> FALSE, response |-> RespJson]

\* The call that gave r.
ProcessedSync(i, contact_info, use_ai, io, r) ==
  /\ Commit(i, Remember(r.s, contact_info, r.outcome))
  /\ last' = Call("process_contact", i, use_ai,
                  <<Item(Store(i), contact_info, r),
                    Mirror(Store(i), friends_data, io,
                           ~r.from_cache /\ r.generated # "none", r.outcome.raised)>>)
  /\ UNCHANGED <<friends_data, api, now, live, cleared, req>>

ProcessContactSync(i, contact_info, use_ai, io) ==
  ProcessedSync(i, contact_info, use_ai, io,
                process_contact_sync(Store(i), friends_data, contact_info, use_ai,
                                     IF use_ai THEN JsonProvider ELSE NoProvider, now, now, io))

\* The put that gave r.
PutSynced(i, email, company, email_data, io, r) ==
  /\ Commit(i, r.s)
  /\ last' = [Call("save_to_cache", i, FALSE,
                   <<Mirror(Store(i), friends_data, io, TRUE, r.raised)>>) EXCEPT
                !.put = [email |-> email, company |-> company, email_data |-> email_data]]
  /\ UNCHANGED <<friends_data, api, now, live, cleared, req>>

SaveToCacheSync(i, email, company, email_data, io) ==
  PutSynced(i, email, company, email_data, io,
            save_to_cache_sync(Store(i), friends_data, email, company, email_data, now, io))

InitSync ==
  /\ live = {RouteInstance}
  /\ cache_file = AbsentFile
  /\ cache = [i \in Instances |-> load_cache(cache_file)]
  /\ friends_cache \in SharedFiles
  /\ friends_data \in SyncRosters
  /\ api = ApiValid
  /\ now = 0
  /\ last = NoCall
  /\ returned = [i \in Instances |-> EmptyMap]
  /\ cleared = {}
  /\ req = [r \in Requests |-> Idle]

NextSync ==
  \/ \E c \in SharedContacts, use_ai \in BOOLEAN, io \in WriteOutcomes :
       ProcessContactSync(RouteInstance, c, use_ai, io)
  \/ \E c \in SharedContacts, d \in PutData, io \in WriteOutcomes :
       SaveToCacheSync(RouteInstance, c.email, c.company, d, io)
  \/ ClearCache

SpecSync == InitSync /\ [][NextSync]_vars

\* The store on which every mirror succeeds: a shared file that cannot be
\* parsed is absent instead.
Succeeding(s) == IF s.shared.kind = "corrupt" THEN [s EXCEPT !.shared = AbsentFile] ELSE s

\* What process_contact gives when the mirror succeeds.
WhenSynced(call) ==
  process_contact(Succeeding(Store(call.inst)), "sharing", call.items[1].contact, call.use_ai,
                  IF call.use_ai THEN JsonProvider ELSE NoProvider, now, now)

\* Instance i holds, in memory and in its backing file, the entry of the
\* identity with this content.
InPlace(i, id, email_data) ==
  /\ id \in DOMAIN cache'[i]
  /\ cache'[i][id] = LocalEntry(email_data, now)
  /\ load_cache(cache_file') = cache'[i]

\* C28: a process_contact or save_to_cache whose mirror into the shared
\* file fails (roster unreadable or malformed, shared file not parseable,
\* write failure) raises nothing, leaves the entry just stored in the local
\* cache, and process_contact returns what it returns when the mirror
\* succeeds.
C28_SyncFailureIsolated ==
  [][/\ (last'.op = "process_contact" /\ last'.items[2].failed)
          => /\ ~last'.items[2].raised
             /\ last'.items[1].outcome = WhenSynced(last').outcome
             /\ last'.items[1].from_cache = WhenSynced(last').from_cache
             /\ InPlace(last'.inst, IdOf(last'.items[1].contact), last'.items[1].outcome.data)
     /\ (last'.op = "save_to_cache" /\ last'.items[1].failed)
          => /\ ~last'.items[1].raised
             /\ InPlace(last'.inst, ContactId(last'.put.email, last'.put.company),
                        last'.put.email_data)]_vars

\* A process_contact generated, its write of the shared file failed after
\* open() truncated it, and the content is returned and held locally.
C28_Witness ==
  /\ last.op = "process_contact"
  /\ last.items[2].failed /\ last.items[2].io = "dump"
  /\ friends_data = "sharing"
  /\ friends_cache = TruncatedFile
  /\ ~last.items[1].outcome.raised
  /\ last.items[1].generated # "none"
  /\ IdOf(last.items[1].contact) \in DOMAIN cache[last.inst]
  /\ cache[last.inst][IdOf(last.items[1].contact)].email_data = last.items[1].outcome.data

(***************************************************************************)
(* Identities of contacts whose fields hold an underscore                  *)
(*                                                                         *)
(* One generator, template mode: every content in the cache was generated  *)
(* by the template for the contact of some earlier call.                   *)
(***************************************************************************)
IdentityContacts == {Alice, Bob, EmailUnderscore, CompanyUnderscore}

InitIdentity ==
  /\ live = {RouteInstance}
  /\ cache_file = AbsentFile
  /\ cache = [i \in Instances |-> load_cache(cache_file)]
  /\ friends_cache = AbsentFile
  /\ friends_data = "absent"
  /\ api = ApiValid
  /\ now = 0
  /\ last = NoCall
  /\ returned = [i \in Instances |-> EmptyMap]
  /\ cleared = {}
  /\ req = [r \in Requests |-> Idle]

NextIdentity ==
  \/ \E c \in IdentityContacts : ProcessContact(RouteInstance, c, FALSE, NoProvider, now)
  \/ \E c \in IdentityContacts : VerifyContactInCache(RouteInstance, c.email, c.company)
  \/ ClearCache
  \/ Tick

SpecIdentity == InitIdentity /\ [][NextIdentity]_vars

\* The two contacts have the same email and the same company.
SamePair(c, d) == c.email = d.email /\ c.company = d.company

\* C29: when a process_contact is served from the cache, every contact with
\* the identity of its contact has the same (email, company) pair, and the
\* content returned is the one generated for that pair.
C29_IdentityInjective ==
  (last.op = "process_contact" /\ last.items[1].from_cache)
    => /\ \A d \in IdentityContacts :
            IdOf(d) = IdOf(last.items[1].contact) => SamePair(d, last.items[1].contact)
       /\ last.items[1].outcome = TemplateResults[last.items[1].contact]

(***************************************************************************)
(* Two generators on one backing file                                      *)
(*                                                                         *)
(* email_routes and friends_routes each construct a generator at import,   *)
(* on the same default file.  DELETE /cache empties the first one.         *)
(***************************************************************************)
InitTwo ==
  /\ live = Instances
  /\ cache_file = AbsentFile
  /\ cache = [i \in Instances |-> load_cache(cache_file)]
  /\ friends_cache = AbsentFile
  /\ friends_data = "absent"
  /\ api = ApiValid
  /\ now = 0
  /\ last = NoCall
  /\ returned = [i \in Instances |-> EmptyMap]
  /\ cleared = {}
  /\ req = [r \in Requests |-> Idle]

NextTwo ==
  \/ \E i \in live : Construct(i)
  \/ \E i \in live, c \in SharedContacts : ProcessContact(i, c, FALSE, NoProvider, now)
  \/ \E i \in live, c \in SharedContacts, d \in PutData :
       SaveToCache(i, c.email, c.company, d)
  \/ ClearCache

SpecTwo == InitTwo /\ [][NextTwo]_vars

\* The call recorded is a generation, an absorption or a put for this
\* identity.
MadeAgain(call, id) ==
  \/ call.op = "process_contact" /\ IdOf(call.items[1].contact) = id
  \/ call.op = "save_to_cache" /\ ContactId(call.put.email, call.put.company) = id

\* C30: an identity removed by a clear and absent from the backing file
\* comes into the file again only by a step that generates, absorbs or
\* puts that identity, whichever instance takes the step.
C30_ClearedStayCleared ==
  [][\A id \in cleared :
       (id \notin DOMAIN load_cache(cache_file) /\ id \in DOMAIN load_cache(cache_file'))
         => MadeAgain(last', id)]_vars
====
